---- MODULE Spec2Model ----
(***************************************************************************)
(* Model of the layout planner's occupancy grid (GridManager, PlacedItem)  *)
(* and of its snapshot history (useUndoRedo), of the application handlers   *)
(* that drive both (App, PlannerCanvas, InfoPanel), of the nested spaces    *)
(* (InteriorManager, Interior), of the line tool (LineTool), of the surface  *)
(* (PavingManager) and of saving and loading (PersistenceService).         *)
(***************************************************************************)
EXTENDS Integers, Sequences, FiniteSets, TLC

VARIABLES gridWidth, gridHeight, items, last, history, currentIndex, hist,
          app, space, tool, surface, plan, walk, yard

vars == <<gridWidth, gridHeight, items, last, history, currentIndex, hist,
          app, space, tool, surface, plan, walk, yard>>
gridVars == <<gridWidth, gridHeight, items, last>>
historyVars == <<history, currentIndex, hist>>
sessionVars == <<app, space, tool, surface, plan, walk, yard>>

(* ------------------------------ bounds --------------------------------- *)
\* largest grid side explored (the program's default is 50)
MaxGrid == 3
\* most entities held by the grid at once
MaxItems == 2
\* largest candidate side used when probing canPlaceItem
MaxDim == 3
\* most saveState calls made on one log before it is cleared
MaxSaves == 52
\* most saveState calls made with the cursor before the end of the log
MaxForks == 1

GridSides == (MaxGrid - 1)..MaxGrid
Coords == -1..MaxGrid
Dims == 1..MaxDim

(* ------------------------------ PlacedItem ----------------------------- *)
Names == {"Palisade", "Gate", "House"}

\* item.name.includes('Gate')
NameIncludesGate(n) == n = "Gate"

PlacedItem(n, x, y, w, h, req) ==
    [name |-> n, x |-> x, y |-> y, width |-> w, height |-> h,
     requiresPalisadeOverlap |-> req]

\* overlaps with the comparisons strict: rectangles sharing an edge collide
overlapsTouching(a, b) ==
    ~(a.x > b.x + b.width
        \/ a.x + a.width < b.x
        \/ a.y > b.y + b.height
        \/ a.y + a.height < b.y)

overlaps(a, b) ==
    ~(a.x >= b.x + b.width
        \/ a.x + a.width <= b.x
        \/ a.y >= b.y + b.height
        \/ a.y + a.height <= b.y)

contains(it, px, py) ==
    /\ px >= it.x /\ px < it.x + it.width
    /\ py >= it.y /\ py < it.y + it.height

moveTo(it, nx, ny) == [it EXCEPT !.x = nx, !.y = ny]

rotate(it) == [it EXCEPT !.width = it.height, !.height = it.width]

(* ------------------------------ GridManager ---------------------------- *)
\* excludeItem is an index into items, 0 standing for null
ItemRefs(its) == 0..Len(its)

\* the end-cell test applied to a wall that overlaps an exemption candidate
coversGateEnd(item, x, y, width, height) ==
    LET isVerticalGate == height > width
    IN  IF isVerticalGate
        THEN contains(item, x, y) \/ contains(item, x, y + height - 1)
        ELSE contains(item, x, y) \/ contains(item, x + width - 1, y)

\* first loop of canPlaceItem from index i on: rejected is the early
\* "return false", hasOverlapWithPalisade the flag left for the second loop
RECURSIVE overlapLoop(_, _, _, _, _, _, _, _, _)
overlapLoop(its, i, x, y, width, height, excludeItem, req, hasOverlap) ==
    IF i > Len(its)
    THEN [rejected |-> FALSE, hasOverlapWithPalisade |-> hasOverlap]
    ELSE LET item == its[i]
             tempItem == PlacedItem("temp", x, y, width, height, FALSE)
         IN  IF i = excludeItem
             THEN overlapLoop(its, i + 1, x, y, width, height, excludeItem, req, hasOverlap)
             ELSE IF overlaps(tempItem, item)
                  THEN IF req /\ item.name = "Palisade"
                            /\ coversGateEnd(item, x, y, width, height)
                       THEN overlapLoop(its, i + 1, x, y, width, height, excludeItem, req, TRUE)
                       ELSE [rejected |-> TRUE,
                             hasOverlapWithPalisade |->
                                 hasOverlap \/ (req /\ item.name = "Palisade")]
                  ELSE overlapLoop(its, i + 1, x, y, width, height, excludeItem, req, hasOverlap)

\* second loop of canPlaceItem: the candidate's origin cell sits right before
\* or right after a gate along the gate's long axis
isAdjacentToGateEdge(its, x, y) ==
    \E i \in 1..Len(its) :
        LET item == its[i]
            isHorizontalGate == item.width > item.height
        IN  /\ NameIncludesGate(item.name)
            /\ IF isHorizontalGate
               THEN item.y = y /\ (item.x - 1 = x \/ item.x + item.width = x)
               ELSE item.x = x /\ (item.y - 1 = y \/ item.y + item.height = y)

\* the bounds test without its check of the bottom edge
outOfBoundsNoBottom(gw, gh, x, y, width, height) ==
    x < 0 \/ y < 0 \/ x + width > gw

outOfBounds(gw, gh, x, y, width, height) ==
    x < 0 \/ y < 0 \/ x + width > gw \/ y + height > gh

canPlaceItemIn(its, gw, gh, x, y, width, height, excludeItem, req) ==
    IF outOfBounds(gw, gh, x, y, width, height)
    THEN FALSE
    ELSE LET r == overlapLoop(its, 1, x, y, width, height, excludeItem, req, FALSE)
         IN  IF r.rejected
             THEN FALSE
             ELSE IF req /\ ~r.hasOverlapWithPalisade /\ ~isAdjacentToGateEdge(its, x, y)
                  THEN FALSE
                  ELSE TRUE

canPlaceItem(x, y, width, height, excludeItem, req) ==
    canPlaceItemIn(items, gridWidth, gridHeight, x, y, width, height, excludeItem, req)

\* some entity other than excludeItem shares area with the candidate
hitsAny(its, x, y, width, height, excludeItem) ==
    \E i \in 1..Len(its) :
        i # excludeItem /\ overlaps(PlacedItem("temp", x, y, width, height, FALSE), its[i])

\* what the last GridManager call was: its name, its return value, the entity
\* it excluded, and of its candidate rectangle whether the exemption was
\* asked for, whether it lay out of bounds and whether it hit an entity
Call(op, ret, ex, req, oob, hit) ==
    [op |-> op, ret |-> ret, excludeItem |-> ex, req |-> req, oob |-> oob, hit |-> hit]

NoCall(op) == Call(op, TRUE, 0, FALSE, FALSE, FALSE)

CallOn(op, ret, its, x, y, width, height, ex, req) ==
    Call(op, ret, ex, req, outOfBounds(gridWidth, gridHeight, x, y, width, height),
         hitsAny(its, x, y, width, height, ex))

\* the buildables a user can place: name, footprint and exemption flag
Catalog ==
    { PlacedItem("Palisade", 0, 0, 1, 1, FALSE),
      PlacedItem("Gate", 0, 0, 3, 1, TRUE),
      PlacedItem("House", 0, 0, 2, 2, FALSE) }

Candidates ==
    { moveTo(c, x, y) : c \in Catalog \cup {rotate(k) : k \in Catalog},
                        x \in Coords, y \in Coords }

addItem(item) ==
    /\ Len(items) < MaxItems
    /\ LET ok == canPlaceItem(item.x, item.y, item.width, item.height, 0,
                              item.requiresPalisadeOverlap)
       IN  /\ items' = IF ok THEN Append(items, item) ELSE items
           /\ last' = CallOn("addItem", ok, items, item.x, item.y, item.width,
                             item.height, 0, item.requiresPalisadeOverlap)
    /\ UNCHANGED <<gridWidth, gridHeight>>

removeItem(i) ==
    /\ items' = [k \in 1..(Len(items) - 1) |-> IF k < i THEN items[k] ELSE items[k + 1]]
    /\ last' = NoCall("removeItem")
    /\ UNCHANGED <<gridWidth, gridHeight>>

\* moveItem that moves first and does not move back on rejection
moveItemNoRevert(i, newX, newY) ==
    LET item == items[i]
        ok == canPlaceItem(newX, newY, item.width, item.height, i,
                           item.requiresPalisadeOverlap)
    IN  /\ items' = [items EXCEPT ![i] = moveTo(item, newX, newY)]
        /\ last' = CallOn("moveItem", ok, items, newX, newY, item.width, item.height, i,
                          item.requiresPalisadeOverlap)
        /\ UNCHANGED <<gridWidth, gridHeight>>

moveItem(i, newX, newY) ==
    LET item == items[i]
        ok == canPlaceItem(newX, newY, item.width, item.height, i,
                           item.requiresPalisadeOverlap)
    IN  /\ items' = IF ok THEN [items EXCEPT ![i] = moveTo(item, newX, newY)] ELSE items
        /\ last' = CallOn("moveItem", ok, items, newX, newY, item.width, item.height, i,
                          item.requiresPalisadeOverlap)
        /\ UNCHANGED <<gridWidth, gridHeight>>

\* rotateItem without the rotation back on rejection
rotateItemOnNoRevert(its, gw, gh, i) ==
    LET rotated == rotate(its[i])
        its1 == [its EXCEPT ![i] = rotated]
        ok == canPlaceItemIn(its1, gw, gh, rotated.x, rotated.y, rotated.width,
                             rotated.height, i, rotated.requiresPalisadeOverlap)
    IN  [ret |-> ok, items |-> its1]

\* rotateItem on the list its: rotate first, validate the rotated entity
\* against the list that now holds it, rotate back on rejection
rotateItemOn(its, gw, gh, i) ==
    LET rotated == rotate(its[i])
        its1 == [its EXCEPT ![i] = rotated]
        ok == canPlaceItemIn(its1, gw, gh, rotated.x, rotated.y, rotated.width,
                             rotated.height, i, rotated.requiresPalisadeOverlap)
    IN  [ret |-> ok,
         items |-> IF ok THEN its1 ELSE [its1 EXCEPT ![i] = rotate(rotated)]]

rotateItem(i) ==
    LET r == rotateItemOn(items, gridWidth, gridHeight, i)
        rotated == rotate(items[i])
    IN  /\ items' = r.items
        /\ last' = CallOn("rotateItem", r.ret, items, rotated.x, rotated.y, rotated.width,
                          rotated.height, i, rotated.requiresPalisadeOverlap)
        /\ UNCHANGED <<gridWidth, gridHeight>>

setGridSize(width, height) ==
    /\ gridWidth' = width
    /\ gridHeight' = height
    /\ last' = NoCall("setGridSize")
    /\ UNCHANGED items

clear ==
    /\ items' = <<>>
    /\ last' = NoCall("clear")
    /\ UNCHANGED <<gridWidth, gridHeight>>

\* entity lists a persisted document can carry (handleLoad builds the
\* entities from the file's records and hands them to loadItems): an empty
\* plan, two houses sharing area, a wall under the end of a gate, a lone gate
Documents ==
    { <<>>,
      <<PlacedItem("House", 0, 0, 2, 2, FALSE), PlacedItem("House", 1, 0, 2, 2, FALSE)>>,
      <<PlacedItem("Palisade", 0, 0, 1, 1, FALSE), PlacedItem("Gate", 0, 0, 3, 1, TRUE)>>,
      <<PlacedItem("Gate", 0, 1, 3, 1, TRUE)>> }

loadItems(list) ==
    /\ items' = list
    /\ last' = NoCall("loadItems")
    /\ UNCHANGED <<gridWidth, gridHeight>>

\* a caller asking canPlaceItem about a candidate (the placement and drag
\* previews do, with the selected buildable's footprint and flag); the query
\* changes nothing, so one query per grid reaches every answer
canPlaceItemQuery(x, y, width, height, excludeItem, req) ==
    /\ last.op = "new"
    /\ last' = CallOn("canPlaceItem", canPlaceItem(x, y, width, height, excludeItem, req),
                      items, x, y, width, height, excludeItem, req)
    /\ UNCHANGED <<gridWidth, gridHeight, items>>

(* ------------------------------ useUndoRedo ---------------------------- *)
\* A stored snapshot is identified by the serial number of the saveState call
\* that cloned it; undo and redo return 0 for null.  currentIndex is the
\* code's 0-based index, -1 for the empty log.
HistoryLimit == 50
LastIndex == 49

Min(a, b) == IF a < b THEN a ELSE b
Max(a, b) == IF a > b THEN a ELSE b

\* prev.slice(0, n)
slice0(prev, n) == SubSeq(prev, 1, Min(n, Len(prev)))

\* the history updater without the eviction of the oldest snapshot
historyUpdaterNoShift(prev, index, snapshot) ==
    Append(slice0(prev, index + 1), snapshot)

\* the history updater appending to the whole log instead of the slice
historyUpdaterNoSlice(prev, index, snapshot) ==
    LET newHistory == Append(prev, snapshot)
    IN  IF Len(newHistory) > HistoryLimit THEN Tail(newHistory) ELSE newHistory

\* the updater saveState passes to setHistory; index is the currentIndex the
\* callback closed over
historyUpdater(prev, index, snapshot) ==
    LET newHistory == Append(slice0(prev, index + 1), snapshot)
    IN  IF Len(newHistory) > HistoryLimit THEN Tail(newHistory) ELSE newHistory

\* the updater saveState passes to setCurrentIndex
indexUpdater(prev) == Min(prev + 1, LastIndex)

\* canUndo that also counts the first snapshot as undoable
canUndoFromFirst == currentIndex >= 0

canUndo == currentIndex > 0

canRedo == currentIndex < Len(history) - 1

saveState ==
    /\ hist.saves < MaxSaves
    /\ canRedo => hist.forks < MaxForks
    /\ LET snapshot == hist.saves + 1
       IN  /\ history' = historyUpdater(history, currentIndex, snapshot)
           /\ currentIndex' = indexUpdater(currentIndex)
           /\ hist' = [op |-> "saveState", ret |-> snapshot, saves |-> snapshot,
                       forks |-> IF canRedo THEN hist.forks + 1 ELSE hist.forks]

undo ==
    IF currentIndex > 0
    THEN /\ currentIndex' = currentIndex - 1
         /\ hist' = [hist EXCEPT !.op = "undo", !.ret = history[(currentIndex - 1) + 1]]
         /\ UNCHANGED history
    ELSE /\ hist' = [hist EXCEPT !.op = "undo", !.ret = 0]
         /\ UNCHANGED <<history, currentIndex>>

redo ==
    IF currentIndex < Len(history) - 1
    THEN /\ currentIndex' = currentIndex + 1
         /\ hist' = [hist EXCEPT !.op = "redo", !.ret = history[(currentIndex + 1) + 1]]
         /\ UNCHANGED history
    ELSE /\ hist' = [hist EXCEPT !.op = "redo", !.ret = 0]
         /\ UNCHANGED <<history, currentIndex>>

clearHistory ==
    /\ history' = <<>>
    /\ currentIndex' = -1
    /\ hist' = [op |-> "clearHistory", ret |-> 0, saves |-> 0, forks |-> 0]

(* ------------------------------ App ------------------------------------ *)
\* The handlers of App, PlannerCanvas and InfoPanel working on the outer grid,
\* the surface, the registry of nested spaces and the history log.  A stored
\* snapshot is an object: history holds its identity (the serial number of the
\* saveState call that made it) and app.heap its content, so that the entity
\* array a restore hands to the grid is the very array the snapshot holds
\* (app.liveRef names that snapshot, 0 when the grid has an array of its own).
\* app.orig keeps what each snapshot held when it was saved, app.was the live
\* state before the last event, app.base the snapshot the last load saved and
\* app.complete the snapshots whose entities have their image elements.
\* A press and its release are taken as one gesture.

\* side of the outer grid in the application specifications
AppGrid == 2
\* most saveState calls made in one run of the application
MaxAppSaves == 4
\* most nested spaces held by the registry at once
MaxSpaces == 2
\* most restores or loads waiting for their images at once
MaxPending == 1

AppCells == 0..(AppGrid - 1)

Range(s) == {s[k] : k \in 1..Len(s)}

\* a placed entity with its link to a nested space (0 when it has none)
AppItem(n, x, y, w, h, req, link) ==
    [name |-> n, x |-> x, y |-> y, width |-> w, height |-> h,
     requiresPalisadeOverlap |-> req, interiorId |-> link]

\* the buildables offered by the sidebar: a building with an interior and a
\* plain one-cell structure
AppCatalog ==
    { AppItem("House", 0, 0, 2, 1, FALSE, 0),
      AppItem("Palisade", 0, 0, 1, 1, FALSE, 0) }

hasInterior(b) == b.name = "House"

createPlacedItem(b, x, y) == moveTo(b, x, y)

\* the copy saveState stores for an entity: name, category, position, size,
\* colour and image only
cloneItem(item) ==
    AppItem(item.name, item.x, item.y, item.width, item.height, FALSE, 0)

snapshotOf(its, pav) ==
    [items |-> [k \in 1..Len(its) |-> cloneItem(its[k])], paving |-> pav]

liveState == [items |-> items, paving |-> app.paving]

\* InteriorManager: the registry in insertion order
buildingIdOf(item) == <<item.name, item.x, item.y>>

newInteriorId ==
    CHOOSE id \in 1..(MaxSpaces + 1) : \A k \in 1..Len(app.interiors) : app.interiors[k].id # id

createInterior(regs, buildingId, id) ==
    Append(regs, [id |-> id, buildingId |-> buildingId])

RECURSIVE removeFirst(_, _)
removeFirst(regs, buildingId) ==
    IF regs = <<>> THEN <<>>
    ELSE IF Head(regs).buildingId = buildingId THEN Tail(regs)
    ELSE <<Head(regs)>> \o removeFirst(Tail(regs), buildingId)

removeInterior(regs, buildingId) == removeFirst(regs, buildingId)

\* the snapshot objects still referenced: by the log, by the grid whose
\* entity array is a snapshot's array, or by a restore waiting for images
referenced(h, ref, pend) ==
    Range(h) \cup ({ref} \ {0}) \cup ({pend[k].id : k \in 1..Len(pend)} \ {0})

keep(heap, ids) == [id \in (DOMAIN heap) \cap ids |-> heap[id]]

\* n saveState calls made by one handler run, all with the currentIndex the
\* handler's closure captured, each storing a clone of snap
savedHistory(h, c, first, n) ==
    IF n = 0 THEN h
    ELSE IF n = 1 THEN historyUpdater(h, c, first)
    ELSE historyUpdater(historyUpdater(h, c, first), c, first + 1)

savedIndex(c, n) ==
    IF n = 0 THEN c ELSE IF n = 1 THEN indexUpdater(c) ELSE indexUpdater(indexUpdater(c))

savedHeap(heap, first, n, snap) ==
    [id \in (DOMAIN heap) \cup (first..(first + n - 1)) |->
        IF id \in DOMAIN heap THEN heap[id] ELSE snap]

\* push, splice, moveTo and rotate act on the array and the entities the grid
\* holds: when they are a snapshot's, the snapshot changes with them
written(heap, ref, its) ==
    IF ref \in DOMAIN heap THEN [heap EXCEPT ![ref].items = its] ELSE heap

\* the part every handler shares: n saveState calls storing snap, then the
\* bookkeeping of the heap for the new grid content (items' is set by the
\* grid operation of the handler)
commit(op, n, snap, ref, pav, regs, pend) ==
    /\ hist.saves + n <= MaxAppSaves
    /\ history' = savedHistory(history, currentIndex, hist.saves + 1, n)
    /\ currentIndex' = savedIndex(currentIndex, n)
    /\ hist' = [op |-> op, ret |-> 0, saves |-> hist.saves + n, forks |-> hist.forks]
    /\ app' = [heap |-> keep(written(savedHeap(app.heap, hist.saves + 1, n, snap), ref, items'),
                             referenced(history', ref, pend)),
               orig |-> keep(savedHeap(app.orig, hist.saves + 1, n, snap),
                             referenced(history', ref, pend)),
               liveRef |-> ref, paving |-> pav, interiors |-> regs, pending |-> pend,
               was |-> liveState, base |-> app.base,
               complete |-> app.complete \cap referenced(history', ref, pend)]

\* PlannerCanvas: a click with a buildable selected
placeBuildable(b, x, y) ==
    LET newItem == createPlacedItem(b, x, y)
        placed == canPlaceItem(x, y, b.width, b.height, 0, FALSE)
        linked == placed /\ hasInterior(b)
        id == newInteriorId
    IN  /\ linked => Len(app.interiors) < MaxSpaces
        /\ addItem(IF linked THEN [newItem EXCEPT !.interiorId = id] ELSE newItem)
        /\ commit("place", 1, snapshotOf(items', app.paving), app.liveRef, app.paving,
                  IF linked THEN createInterior(app.interiors, buildingIdOf(newItem), id)
                  ELSE app.interiors, app.pending)

\* PlannerCanvas: the selected entity dragged to a new position; a successful
\* move saves at once and the release saves again
dragPlaced(i, x, y) ==
    /\ moveItem(i, x, y)
    /\ commit("move", IF last'.ret THEN 2 ELSE 1, snapshotOf(items', app.paving),
              app.liveRef, app.paving, app.interiors, app.pending)

\* PlannerCanvas: a click with a surface type (paint) or the eraser selected
paintPaving(pav) ==
    /\ UNCHANGED gridVars
    /\ commit("paint", 1, snapshotOf(items, pav), app.liveRef, pav, app.interiors,
              app.pending)

\* App: Delete or Backspace with one entity selected
deleteSelected(i) ==
    /\ removeItem(i)
    /\ commit("delete", 1, snapshotOf(items, app.paving), app.liveRef, app.paving,
              IF items[i].interiorId # 0
              THEN removeInterior(app.interiors, buildingIdOf(items[i]))
              ELSE app.interiors, app.pending)

\* InfoPanel: the Delete button
handleDelete(i) ==
    /\ removeItem(i)
    /\ commit("handleDelete", 1, snapshotOf(items, app.paving), app.liveRef, app.paving,
              app.interiors, app.pending)

\* InfoPanel: the Rotate button
handleRotate(i) ==
    /\ rotateItem(i)
    /\ commit("handleRotate", IF last'.ret THEN 1 ELSE 0, snapshotOf(items', app.paving),
              app.liveRef, app.paving, app.interiors, app.pending)

\* App: Clear All
handleClear ==
    /\ clear
    /\ commit("handleClear", 1, snapshotOf(items, app.paving), 0, FALSE, <<>>, app.pending)

\* PavingSidebar: Clear All Paving
handleClearAllPaving ==
    /\ UNCHANGED gridVars
    /\ commit("handleClearAllPaving", 1, snapshotOf(items, app.paving), app.liveRef, FALSE,
              app.interiors, app.pending)

\* the tail shared by handleUndo and handleRedo once the images are there:
\* the grid takes the snapshot's own entity array, the surface a copy
restoreFrom(id, pend) ==
    /\ loadItems(app.heap[id].items)
    /\ app' = [heap |-> keep(app.heap, referenced(history', id, pend)),
               orig |-> keep(app.orig, referenced(history', id, pend)),
               liveRef |-> id, paving |-> app.heap[id].paving,
               interiors |-> app.interiors, pending |-> pend, was |-> liveState,
               base |-> app.base,
               complete |-> (app.complete \cup {id}) \cap referenced(history', id, pend)]

idle == UNCHANGED gridVars /\ app' = [app EXCEPT !.was = liveState]

\* App: Ctrl+Z and Ctrl+Y with every image already complete
handleUndo == undo /\ IF hist'.ret # 0 THEN restoreFrom(hist'.ret, app.pending) ELSE idle

handleRedo == redo /\ IF hist'.ret # 0 THEN restoreFrom(hist'.ret, app.pending) ELSE idle

\* whether the await of a restore resolves without a wait: the snapshot has no
\* entity, or its entities got their image elements in an earlier restore
imagesComplete(id) == app.heap[id].items = <<>> \/ id \in app.complete

\* the same handlers up to their await: the cursor has moved, the restore
\* waits for the images of the snapshot's entities
waitFor(op, id, doc) ==
    /\ Len(app.pending) < MaxPending
    /\ UNCHANGED gridVars
    /\ app' = [app EXCEPT !.pending = Append(@, [op |-> op, id |-> id, doc |-> doc]),
                          !.was = liveState]

NoDocument == [side |-> 0, items |-> <<>>, paving |-> FALSE, interiors |-> <<>>]

handleUndoBegin ==
    /\ undo
    /\ IF hist'.ret = 0 THEN idle
       ELSE IF imagesComplete(hist'.ret) THEN restoreFrom(hist'.ret, app.pending)
       ELSE waitFor("undo", hist'.ret, NoDocument)

handleRedoBegin ==
    /\ redo
    /\ IF hist'.ret = 0 THEN idle
       ELSE IF imagesComplete(hist'.ret) THEN restoreFrom(hist'.ret, app.pending)
       ELSE waitFor("redo", hist'.ret, NoDocument)

\* persisted documents: an empty plan, a building with its nested space, a
\* building saved before nested spaces existed, a wall next to a building
AppDocuments ==
    { [side |-> AppGrid, items |-> <<>>, paving |-> FALSE, interiors |-> <<>>],
      [side |-> AppGrid, items |-> <<AppItem("House", 0, 0, 2, 1, FALSE, 1)>>, paving |-> TRUE,
       interiors |-> <<[id |-> 1, buildingId |-> <<"House", 0, 0>>]>>],
      [side |-> AppGrid, items |-> <<AppItem("House", 0, 1, 2, 1, FALSE, 0)>>, paving |-> FALSE,
       interiors |-> <<>>],
      [side |-> AppGrid,
       items |-> <<AppItem("Palisade", 0, 0, 1, 1, FALSE, 0), AppItem("House", 0, 1, 2, 1, FALSE, 1)>>,
       paving |-> FALSE, interiors |-> <<[id |-> 1, buildingId |-> <<"House", 0, 1>>]>>] }

\* the backwards-compatibility pass of handleLoad: a building without a link
\* gets a new nested space
RECURSIVE createMissing(_, _, _)
createMissing(list, k, regs) ==
    IF k > Len(list) THEN [items |-> list, interiors |-> regs]
    ELSE IF hasInterior(list[k]) /\ list[k].interiorId = 0
    THEN LET id == CHOOSE n \in 1..(Len(regs) + 1) : \A j \in 1..Len(regs) : regs[j].id # n
         IN  createMissing([list EXCEPT ![k].interiorId = id], k + 1,
                           createInterior(regs, buildingIdOf(list[k]), id))
    ELSE createMissing(list, k + 1, regs)

\* handleLoad from the arrival of the images on: entities, surface and
\* registry replaced, the log cleared and one snapshot saved
loadDocument(doc, pend) ==
    LET loaded == createMissing(doc.items, 1, doc.interiors)
        id == hist.saves + 1
        snap == snapshotOf(loaded.items, doc.paving)
    IN  /\ hist.saves < MaxAppSaves
        /\ items' = loaded.items
        /\ last' = NoCall("loadItems")
        /\ history' = historyUpdater(<<>>, currentIndex, id)
        /\ currentIndex' = indexUpdater(-1)
        /\ hist' = [op |-> "handleLoad", ret |-> 0, saves |-> id, forks |-> 0]
        /\ app' = [heap |-> keep(savedHeap(app.heap, id, 1, snap), referenced(history', 0, pend)),
                   orig |-> keep(savedHeap(app.orig, id, 1, snap), referenced(history', 0, pend)),
                   liveRef |-> 0, paving |-> doc.paving, interiors |-> loaded.interiors,
                   pending |-> pend, was |-> liveState, base |-> id,
                   complete |-> app.complete \cap referenced(history', 0, pend)]

\* App: Load with every image already complete
handleLoad(doc) ==
    /\ gridWidth' = doc.side
    /\ gridHeight' = doc.side
    /\ loadDocument(doc, app.pending)

\* the same handler up to its await: the grid has its new size, the entities
\* wait for their images
handleLoadBegin(doc) ==
    /\ doc.items # <<>>
    /\ Len(app.pending) < MaxPending
    /\ setGridSize(doc.side, doc.side)
    /\ UNCHANGED <<history, currentIndex>>
    /\ hist' = [hist EXCEPT !.op = "handleLoad", !.ret = 0]
    /\ app' = [app EXCEPT !.pending = Append(@, [op |-> "handleLoad", id |-> 0, doc |-> doc]),
                          !.was = liveState]

without(pend, k) == [j \in 1..(Len(pend) - 1) |-> IF j < k THEN pend[j] ELSE pend[j + 1]]

\* the images of the k-th waiting handler have arrived: it runs to its end
resume(k) ==
    LET p == app.pending[k]
    IN  IF p.op = "handleLoad"
        THEN /\ UNCHANGED <<gridWidth, gridHeight>>
             /\ loadDocument(p.doc, without(app.pending, k))
        ELSE /\ UNCHANGED <<history, currentIndex>>
             /\ hist' = [hist EXCEPT !.op = "resume", !.ret = p.id]
             /\ restoreFrom(p.id, without(app.pending, k))

\* the session before App has mounted, and once its first effect has saved
\* the empty plan
AppNew ==
    [heap |-> [id \in {} |-> 0], orig |-> [id \in {} |-> 0], liveRef |-> 0, paving |-> FALSE, interiors |-> <<>>,
     pending |-> <<>>, was |-> [items |-> <<>>, paving |-> FALSE], base |-> 0,
     complete |-> {}]

AppMounted ==
    [AppNew EXCEPT !.heap = [id \in {1} |-> snapshotOf(<<>>, FALSE)],
                   !.orig = [id \in {1} |-> snapshotOf(<<>>, FALSE)]]

(* ------------------------------ Interior ------------------------------- *)
\* One nested space while it is open in the editor: the entities of its
\* floor 0, whether it has a floor -1, the floor shown (App.activeFloor) and
\* the selection.  space.selectedPlaced is the position in floor 0 of the
\* selected entity (0 for null), space.selectedPlacedItems the positions of a
\* multiple selection.  The outer grid and its log are left as they are.

\* width of floor 0 of the nested space, in cells
InsideWidth == 3

InsideItem(n, x, unlocks) == [name |-> n, x |-> x, unlocksCellar |-> unlocks]

\* the buildables placed inside: one that unlocks a cellar, one that does not
InsideCatalog == { InsideItem("Hatch", 0, TRUE), InsideItem("Table", 0, FALSE) }

cellarItems(its) == {k \in 1..Len(its) : its[k].unlocksCellar}

addCellarFloor(s) == [s EXCEPT !.cellar = TRUE]

removeCellarFloor(s) == [s EXCEPT !.cellar = FALSE]

hasCellarFloor(s) == s.cellar

RECURSIVE removeItems(_, _, _)
removeItems(its, k, gone) ==
    IF k > Len(its) THEN <<>>
    ELSE (IF k \in gone THEN <<>> ELSE <<its[k]>>) \o removeItems(its, k + 1, gone)

SpaceNew ==
    [floor0 |-> <<>>, cellar |-> FALSE, activeFloor |-> 0, selectedPlaced |-> 0,
     selectedPlacedItems |-> {}, op |-> "new"]

\* a buildable placed on floor 0; placing one that unlocks a cellar creates
\* floor -1
placeInside(b, x) ==
    /\ space.activeFloor = 0
    /\ \A k \in 1..Len(space.floor0) : space.floor0[k].x # x
    /\ space' = [(IF b.unlocksCellar THEN addCellarFloor(space) ELSE space)
                 EXCEPT !.floor0 = Append(@, [b EXCEPT !.x = x]), !.op = "place"]

\* a click on an entity of floor 0, or a selection box around several
selectPlaced(k) ==
    /\ space.activeFloor = 0
    /\ space' = [space EXCEPT !.selectedPlaced = k, !.selectedPlacedItems = {},
                              !.op = "selectPlaced"]

selectMultiplePlaced(ks) ==
    /\ space.activeFloor = 0
    /\ space' = [space EXCEPT !.selectedPlaced = 0, !.selectedPlacedItems = ks,
                              !.op = "selectMultiplePlaced"]

\* the floor buttons: App hands setActiveFloor to the canvas
onFloorChange(floor) ==
    /\ floor = -1 => hasCellarFloor(space)
    /\ space' = [space EXCEPT !.activeFloor = floor, !.op = "onFloorChange"]

\* Delete or Backspace with one entity selected, inside the nested space
deleteInside ==
    LET k == space.selectedPlaced
        otherCellarItems == cellarItems(space.floor0) \ {k}
        checked == space.activeFloor = 0 /\ space.floor0[k].unlocksCellar
        removes == checked /\ otherCellarItems = {} /\ hasCellarFloor(space)
        s1 == IF removes THEN removeCellarFloor(space) ELSE space
        s2 == IF removes /\ space.activeFloor = -1 THEN [s1 EXCEPT !.activeFloor = 0] ELSE s1
    IN  /\ k # 0
        /\ space' = [s2 EXCEPT !.floor0 = removeItems(@, 1, {k}), !.selectedPlaced = 0,
                               !.op = "delete"]

\* Delete or Backspace with several entities selected
deleteItemsInside ==
    LET ks == space.selectedPlacedItems
        left == removeItems(space.floor0, 1, ks)
        checked == space.activeFloor = 0
        removes == checked /\ cellarItems(left) = {} /\ hasCellarFloor(space)
        s1 == IF removes THEN removeCellarFloor(space) ELSE space
        s2 == IF removes /\ space.activeFloor = -1 THEN [s1 EXCEPT !.activeFloor = 0] ELSE s1
    IN  /\ space.selectedPlaced = 0
        /\ ks # {}
        /\ space' = [s2 EXCEPT !.floor0 = left, !.selectedPlacedItems = {}, !.op = "deleteItems"]

\* the nested space as a persisted document holds it: the entities of floor 0
\* and whether floorData has a -1 key
InsideDocuments ==
    { [floor0 |-> <<>>, cellarKey |-> FALSE],
      [floor0 |-> <<InsideItem("Hatch", 0, TRUE)>>, cellarKey |-> TRUE],
      [floor0 |-> <<InsideItem("Table", 1, FALSE)>>, cellarKey |-> TRUE],
      [floor0 |-> <<InsideItem("Hatch", 0, TRUE), InsideItem("Hatch", 2, TRUE)>>, cellarKey |-> FALSE] }

\* Interior.fromJSON, with the selection cleared by handleLoad
fromJSON(doc) ==
    space' = [floor0 |-> doc.floor0, cellar |-> doc.cellarKey,
              activeFloor |-> space.activeFloor, selectedPlaced |-> 0,
              selectedPlacedItems |-> {}, op |-> "fromJSON"]

(* ------------------------------ LineTool ------------------------------- *)
\* tool.startPoint is the empty sequence for null and <<p>> for a point;
\* tool.currentDirection is "none" for null.  tool.op and tool.arg record the
\* last call and its argument, tool.ret the cells it returned when it was
\* updateEndPoint, getAllCells or getAllCellsWithCorners, tool.done the
\* segments it returned when it was completeLine, tool.before the direction
\* that was locked when it was made.

\* largest coordinate of a point given to the line tool
LineMax == 2
\* most segments stored by extendLine in one session
MaxSegments == 1

Point(x, y) == [x |-> x, y |-> y]

Points == {Point(x, y) : x \in 0..LineMax, y \in 0..LineMax}

Abs(n) == IF n < 0 THEN -n ELSE n

\* the direction updateEndPoint works with: the locked one, or the one it
\* locks from the movement away from the start
directionStrict(dir, s, p) ==
    IF dir # "none" THEN dir
    ELSE IF Abs(p.x - s.x) > Abs(p.y - s.y) THEN "horizontal" ELSE "vertical"

directionFollowing(dir, s, p) ==
    IF Abs(p.x - s.x) >= Abs(p.y - s.y) THEN "horizontal" ELSE "vertical"

direction(dir, s, p) ==
    IF dir # "none" THEN dir
    ELSE IF Abs(p.x - s.x) >= Abs(p.y - s.y) THEN "horizontal" ELSE "vertical"

\* the cells from the start to the point along the direction, lowest first
cells(dir, s, p) ==
    IF dir = "horizontal"
    THEN [k \in 1..(Max(s.x, p.x) - Min(s.x, p.x) + 1) |-> Point(Min(s.x, p.x) + k - 1, s.y)]
    ELSE [k \in 1..(Max(s.y, p.y) - Min(s.y, p.y) + 1) |-> Point(s.x, Min(s.y, p.y) + k - 1)]

updateEndPointOn(t, point) ==
    IF t.startPoint = <<>>
    THEN [t EXCEPT !.op = "updateEndPoint", !.arg = <<point>>, !.ret = <<>>, !.done = <<>>]
    ELSE LET s == t.startPoint[1]
         IN  IF t.currentDirection = "none" /\ point.x = s.x /\ point.y = s.y
             THEN [t EXCEPT !.op = "updateEndPoint", !.arg = <<point>>, !.ret = <<s>>,
                            !.done = <<>>]
             ELSE LET dir == direction(t.currentDirection, s, point)
                  IN  [t EXCEPT !.op = "updateEndPoint", !.arg = <<point>>,
                                !.currentDirection = dir,
                                !.currentSegment = cells(dir, s, point),
                                !.ret = cells(dir, s, point), !.done = <<>>]

ToolNew ==
    [startPoint |-> <<>>, currentDirection |-> "none", placedSegments |-> <<>>,
     currentSegment |-> <<>>, op |-> "new", arg |-> <<>>, ret |-> <<>>, done |-> <<>>,
     before |-> "none"]

isActive == tool.startPoint # <<>>

startLine(point) ==
    tool' = [tool EXCEPT !.startPoint = <<point>>, !.currentDirection = "none",
                         !.currentSegment = <<point>>, !.op = "startLine", !.arg = <<point>>,
                         !.ret = <<>>, !.done = <<>>, !.before = tool.currentDirection]

updateEndPoint(point) ==
    tool' = [updateEndPointOn(tool, point) EXCEPT !.before = tool.currentDirection]

stored(t) ==
    IF Len(t.currentSegment) > 1 THEN Append(t.placedSegments, t.currentSegment)
    ELSE t.placedSegments

extendLine(point) ==
    /\ Len(stored(tool)) <= MaxSegments
    /\ IF tool.currentSegment = <<>>
       THEN tool' = [tool EXCEPT !.op = "extendLine", !.arg = <<point>>, !.ret = <<>>,
                                 !.done = <<>>, !.before = tool.currentDirection]
       ELSE LET lastPoint == tool.currentSegment[Len(tool.currentSegment)]
            IN  tool' = [updateEndPointOn([tool EXCEPT !.placedSegments = stored(tool),
                                                       !.startPoint = <<lastPoint>>,
                                                       !.currentDirection = "none",
                                                       !.currentSegment = <<lastPoint>>],
                                          point)
                         EXCEPT !.op = "extendLine", !.ret = <<>>,
                                !.before = tool.currentDirection]

reset ==
    tool' = [tool EXCEPT !.startPoint = <<>>, !.currentDirection = "none",
                         !.placedSegments = <<>>, !.currentSegment = <<>>, !.op = "reset",
                         !.arg = <<>>, !.ret = <<>>, !.done = <<>>,
                         !.before = tool.currentDirection]

completeLine ==
    tool' = [tool EXCEPT !.startPoint = <<>>, !.currentDirection = "none",
                         !.placedSegments = <<>>, !.currentSegment = <<>>,
                         !.op = "completeLine", !.arg = <<>>, !.ret = <<>>,
                         !.done = stored(tool), !.before = tool.currentDirection]

cancel ==
    tool' = [tool EXCEPT !.startPoint = <<>>, !.currentDirection = "none",
                         !.placedSegments = <<>>, !.currentSegment = <<>>, !.op = "cancel",
                         !.arg = <<>>, !.ret = <<>>, !.done = <<>>,
                         !.before = tool.currentDirection]

\* [...a, ...b, ...] of a list of segments
RECURSIVE concat(_)
concat(segments) ==
    IF segments = <<>> THEN <<>> ELSE Head(segments) \o concat(Tail(segments))

\* the cells of a list with every later occurrence of a cell dropped
RECURSIVE uniqueCells(_, _)
uniqueCells(allCells, seen) ==
    IF allCells = <<>> THEN <<>>
    ELSE IF Head(allCells) \in seen THEN uniqueCells(Tail(allCells), seen)
    ELSE <<Head(allCells)>> \o uniqueCells(Tail(allCells), seen \cup {Head(allCells)})

getAllCellsOf(t) == uniqueCells(concat(t.placedSegments) \o t.currentSegment, {})

getAllCells ==
    tool' = [tool EXCEPT !.op = "getAllCells", !.arg = <<>>, !.ret = getAllCellsOf(tool),
                         !.done = <<>>, !.before = tool.currentDirection]

\* the orientations a linear structure already standing on a cell can have,
\* "none" when no such structure stands there
Orientations == {"none", "horizontal", "vertical", "corner"}

Oriented(cell, orientation) == [x |-> cell.x, y |-> cell.y, orientation |-> orientation]

\* the current run with its tags: the first cell a corner, the last cell a
\* corner too when a linear structure of another orientation stands on it,
\* every other cell the locked orientation
cellsWithCorners(t, found) ==
    [k \in 1..Len(t.currentSegment) |->
        Oriented(t.currentSegment[k],
                 IF k = 1 THEN "corner"
                 ELSE IF k = Len(t.currentSegment) /\ found \notin {"none", t.currentDirection}
                      THEN "corner"
                 ELSE t.currentDirection)]

\* found is the orientation of the linear structure standing on the last
\* cell of the run among the entities handed in
getAllCellsWithCorners(found) ==
    tool' = [tool EXCEPT !.op = "getAllCellsWithCorners", !.arg = <<found>>,
                         !.ret = cellsWithCorners(tool, found), !.done = <<>>,
                         !.before = tool.currentDirection]

(* ------------------------------ PavingManager -------------------------- *)
\* surface.grid is the manager's map from cell keys to paving records, a key
\* being the pair of coordinates `${x},${y}` spells out; imageElement is 0
\* for undefined and the type's name for its loaded image.  surface.json is
\* the value the last toJSON returned, surface.op, surface.arg and surface.ret
\* the last call, its arguments and the cells it returned when it was a shape
\* generator, surface.was the grid a loadPaving found when it was called.

\* the cells that can be paved lie in 0..PaveMax on both axes (all of that
\* square but its far corner)
PaveMax == 1
\* the shape generators are given the points of the lattice 0..ShapeMax and
\* two coordinates further out
ShapeMax == 3

ShapeCoords == 0..ShapeMax \cup {5, 7}

PaveCells == {<<x, y>> : x \in 0..PaveMax, y \in 0..PaveMax} \ {<<PaveMax, PaveMax>>}

\* the paving types of the sidebar: name, category and image path
PavingType(name, category, image) == [name |-> name, category |-> category, image |-> image]

PavingTypes ==
    {PavingType("Stone", "stone", "stone.png"), PavingType("Grass", "nature", "grass.png")}

\* PavingType.createPavingData with the image element the type holds
createPavingData(paving, imageElement) ==
    [name |-> paving.name, category |-> paving.category, image |-> paving.image,
     imageElement |-> imageElement]

\* the grid g with key set to value / with key deleted
gridSet(g, key, value) ==
    [k \in DOMAIN g \cup {key} |-> IF k = key THEN value ELSE g[k]]

gridDelete(g, key) == [k \in DOMAIN g \ {key} |-> g[k]]

NoPaving == [k \in {} |-> 0]

\* toJSON: name, category and image of every entry under its key
toJSONOf(g) ==
    [k \in DOMAIN g |-> [name |-> g[k].name, category |-> g[k].category, image |-> g[k].image]]

\* loadPaving that keeps what the grid held
loadPavingOnto(g, data, loaded) ==
    [k \in DOMAIN g \cup DOMAIN data |->
        IF k \in DOMAIN data
        THEN [name |-> data[k].name, category |-> data[k].category, image |-> data[k].image,
              imageElement |-> IF data[k].name \in loaded THEN data[k].name ELSE 0]
        ELSE g[k]]

\* loadPaving: the grid is cleared, then every entry of data is set with the
\* image element of the registered type of its name (loaded holds the names
\* of the registered types whose image is there)
loadPavingOf(g, data, loaded) ==
    [k \in DOMAIN data |->
        [name |-> data[k].name, category |-> data[k].category, image |-> data[k].image,
         imageElement |-> IF data[k].name \in loaded THEN data[k].name ELSE 0]]

SurfaceNew ==
    [grid |-> NoPaving, json |-> NoPaving, op |-> "new", arg |-> <<>>, ret |-> <<>>,
     was |-> NoPaving]

placePaving(x, y, paving, imageElement) ==
    surface' = [grid |-> gridSet(surface.grid, <<x, y>>, createPavingData(paving, imageElement)),
                json |-> surface.json, op |-> "placePaving", arg |-> <<>>, ret |-> <<>>,
                was |-> NoPaving]

removePaving(x, y) ==
    surface' = [grid |-> gridDelete(surface.grid, <<x, y>>), json |-> surface.json,
                op |-> "removePaving", arg |-> <<>>, ret |-> <<>>,
                was |-> NoPaving]

clearPaving ==
    surface' = [grid |-> NoPaving, json |-> surface.json, op |-> "clear", arg |-> <<>>,
                ret |-> <<>>,
                was |-> NoPaving]

toJSON ==
    surface' = [grid |-> surface.grid, json |-> toJSONOf(surface.grid), op |-> "toJSON",
                arg |-> <<>>, ret |-> <<>>,
                was |-> NoPaving]

loadPaving(data, loaded) ==
    surface' = [grid |-> loadPavingOf(surface.grid, data, loaded), json |-> surface.json,
                op |-> "loadPaving", arg |-> <<>>, ret |-> <<>>,
                was |-> surface.grid]

GridCell(x, y) == [x |-> x, y |-> y]

\* a walk along x and then along y in place of the error accumulator
RECURSIVE lineAxisFirst(_, _, _, _)
lineAxisFirst(x0, y0, x1, y1) ==
    IF x0 = x1 /\ y0 = y1 THEN <<GridCell(x0, y0)>>
    ELSE IF x0 # x1
         THEN <<GridCell(x0, y0)>> \o lineAxisFirst(IF x0 < x1 THEN x0 + 1 ELSE x0 - 1, y0, x1, y1)
         ELSE <<GridCell(x0, y0)>> \o lineAxisFirst(x0, IF y0 < y1 THEN y0 + 1 ELSE y0 - 1, x1, y1)

\* the loop of getLineCells from (x, y) with the error err; l holds the end
\* point, dx, dy, sx and sy
RECURSIVE lineFrom(_, _, _, _)
lineFrom(x, y, err, l) ==
    IF x = l.x1 /\ y = l.y1 THEN <<GridCell(x, y)>>
    ELSE LET e2 == 2 * err
             stepX == e2 > -l.dy
             stepY == e2 < l.dx
         IN  <<GridCell(x, y)>> \o
             lineFrom(IF stepX THEN x + l.sx ELSE x,
                      IF stepY THEN y + l.sy ELSE y,
                      (IF stepX THEN err - l.dy ELSE err) + (IF stepY THEN l.dx ELSE 0),
                      l)

getLineCellsOf(x0, y0, x1, y1) ==
    lineFrom(x0, y0, Abs(x1 - x0) - Abs(y1 - y0),
             [x1 |-> x1, y1 |-> y1, dx |-> Abs(x1 - x0), dy |-> Abs(y1 - y0),
              sx |-> IF x0 < x1 THEN 1 ELSE -1, sy |-> IF y0 < y1 THEN 1 ELSE -1])

\* getLineCells run one turn of its loop at a time.  walk holds the call in
\* progress: pc is "idle" before the call, "loop" at the head of the while
\* loop and "done" after the break; x, y and err are the locals, l the end
\* point with dx, dy, sx and sy.  The list of cells pushed is left out: the
\* turns push (x, y) and read nothing of the list.
WalkNew ==
    [pc |-> "idle", x0 |-> 0, y0 |-> 0, x |-> 0, y |-> 0, err |-> 0,
     l |-> [x1 |-> 0, y1 |-> 0, dx |-> 0, dy |-> 0, sx |-> 1, sy |-> 1]]

\* the two tests of the loop body with their comparisons turned round
lineStepTurned(w) ==
    LET e2 == 2 * w.err
        stepX == e2 > w.l.dy
        stepY == e2 < -w.l.dx
    IN  [w EXCEPT !.x = IF stepX THEN @ + w.l.sx ELSE @,
                  !.y = IF stepY THEN @ + w.l.sy ELSE @,
                  !.err = (IF stepX THEN @ - w.l.dy ELSE @) + (IF stepY THEN w.l.dx ELSE 0)]

\* the loop body after the break test: e2, then the x step, then the y step
lineStep(w) ==
    LET e2 == 2 * w.err
        stepX == e2 > -w.l.dy
        stepY == e2 < w.l.dx
    IN  [w EXCEPT !.x = IF stepX THEN @ + w.l.sx ELSE @,
                  !.y = IF stepY THEN @ + w.l.sy ELSE @,
                  !.err = (IF stepX THEN @ - w.l.dy ELSE @) + (IF stepY THEN w.l.dx ELSE 0)]

\* the call: the locals are set up and the loop is entered
getLineCellsCall(x0, y0, x1, y1) ==
    /\ walk.pc = "idle"
    /\ walk' = [pc |-> "loop", x0 |-> x0, y0 |-> y0, x |-> x0, y |-> y0,
                err |-> Abs(x1 - x0) - Abs(y1 - y0),
                l |-> [x1 |-> x1, y1 |-> y1, dx |-> Abs(x1 - x0), dy |-> Abs(y1 - y0),
                       sx |-> IF x0 < x1 THEN 1 ELSE -1, sy |-> IF y0 < y1 THEN 1 ELSE -1]]

\* one turn of the loop: it breaks at the end point or steps
getLineCellsTurn ==
    /\ walk.pc = "loop"
    /\ walk' = IF walk.x = walk.l.x1 /\ walk.y = walk.l.y1
               THEN [walk EXCEPT !.pc = "done"]
               ELSE lineStep(walk)

\* the two nested loops from (fromX, fromY) to (toX, toY), x outside
boxCells(fromX, fromY, toX, toY) ==
    IF toX < fromX \/ toY < fromY THEN <<>>
    ELSE [k \in 1..((toX - fromX + 1) * (toY - fromY + 1)) |->
            GridCell(fromX + ((k - 1) \div (toY - fromY + 1)),
                     fromY + ((k - 1) % (toY - fromY + 1)))]

\* getRectangleCells looping from the first corner to the second as given
rectangleCellsAsGiven(x0, y0, x1, y1) == boxCells(x0, y0, x1, y1)

getRectangleCellsOf(x0, y0, x1, y1) ==
    boxCells(Min(x0, x1), Min(y0, y1), Max(x0, x1), Max(y0, y1))

\* Math.ceil(Math.sqrt(d)) for an integer d >= 0
ceilSqrt(d) == CHOOSE r \in 0..d : r * r >= d /\ (r = 0 \/ (r - 1) * (r - 1) < d)

\* the integers d up to 98 for which radius * radius, with radius the double
\* Math.sqrt(d), is a double below d (for every other d it is d or just above)
RadiusSquaredBelow ==
    {3, 6, 12, 13, 18, 23, 24, 26, 29, 31, 37, 38, 43, 48, 52, 59, 61, 65, 72, 73, 89, 92,
     95, 96, 97}

\* distSquared <= radiusSquared, the radius being that of the squared
\* distance d between center and edge
withinRadius(distSquared, d) ==
    IF d \in RadiusSquaredBelow THEN distSquared < d ELSE distSquared <= d

distSquaredOf(x, y, centerX, centerY) ==
    (x - centerX) * (x - centerX) + (y - centerY) * (y - centerY)

getCircleCellsOf(centerX, centerY, edgeX, edgeY) ==
    LET d == distSquaredOf(edgeX, edgeY, centerX, centerY)
        inside(cell) == withinRadius(distSquaredOf(cell.x, cell.y, centerX, centerY), d)
    IN  SelectSeq(boxCells(centerX - ceilSqrt(d), centerY - ceilSqrt(d),
                           centerX + ceilSqrt(d), centerY + ceilSqrt(d)),
                  inside)

\* a caller asking a shape generator for the cells between two points; the
\* generators are static and change nothing, so one call per behaviour
\* reaches every answer
getLineCells(x0, y0, x1, y1) ==
    /\ surface.op = "new"
    /\ surface' = [surface EXCEPT !.op = "getLineCells", !.arg = <<x0, y0, x1, y1>>,
                               !.ret = getLineCellsOf(x0, y0, x1, y1)]

getRectangleCells(x0, y0, x1, y1) ==
    /\ surface.op = "new"
    /\ surface' = [surface EXCEPT !.op = "getRectangleCells", !.arg = <<x0, y0, x1, y1>>,
                               !.ret = getRectangleCellsOf(x0, y0, x1, y1)]

getCircleCells(centerX, centerY, edgeX, edgeY) ==
    /\ surface.op = "new"
    /\ surface' = [surface EXCEPT !.op = "getCircleCells",
                               !.arg = <<centerX, centerY, edgeX, edgeY>>,
                               !.ret = getCircleCellsOf(centerX, centerY, edgeX, edgeY)]

(* ------------------------------ PersistenceService --------------------- *)
\* Saving a session to a file and loading a file into a session.  plan holds
\* one session by value: the size of the outer grid, the entities on it, the
\* surface, the registry of nested spaces, and next to them the file written
\* by the last save.  The history log of the session is history and
\* currentIndex.  Ghost fields: saved is the session as it was at the last
\* save, was the session as it was before the last load, arg the document
\* given to the last load, threw whether that load ended with an exception,
\* steps the number of handlers run so far.  shots holds the snapshots of the
\* log by their serial number, live the serial number of the snapshot whose
\* entity array the grid holds as its own (0 when it holds none); the ghost
\* orig holds for each snapshot the entities as they were when it was saved.

\* the side of the outer grid a session starts with and falls back to
DefaultGrid == 50
\* most entities a session holds on its outer grid
MaxPlanItems == 2
\* most handlers run in one behaviour of the persistence model
MaxPlanSteps == 4

\* a PlacedItem as the canvas builds it; interiorId is 0 for an entity with no
\* nested space
PlanItem(name, x, y, width, height, orientation, rotation, interiorId) ==
    [name |-> name, x |-> x, y |-> y, width |-> width, height |-> height,
     requiresPalisadeOverlap |-> FALSE, orientation |-> orientation,
     rotation |-> rotation, interiorId |-> interiorId]

\* PlacedItem.toJSON: the record of an entity in a document
itemToJSON(item) ==
    [name |-> item.name, x |-> item.x, y |-> item.y, width |-> item.width,
     height |-> item.height, orientation |-> item.orientation,
     rotation |-> item.rotation]

\* new PlacedItem(itemData): the fields the constructor copies
PlacedItemOf(itemData) ==
    PlanItem(itemData.name, itemData.x, itemData.y, itemData.width, itemData.height,
             itemData.orientation, itemData.rotation, 0)

\* items.map(item => item.toJSON())
itemsToJSON(its) == [i \in 1..Len(its) |-> itemToJSON(its[i])]

\* data.items.map(itemData => new PlacedItem(itemData))
itemsFromJSON(data) == [i \in 1..Len(data) |-> PlacedItemOf(data[i])]

\* the width and height of a nested space
PlanInsideWidth == 2
PlanInsideHeight == 1

\* the surface a new floor of a nested space is filled with: the default
\* type in every cell
floorPaving(name, category) ==
    [k \in {<<x, y>> : x \in 0..(PlanInsideWidth - 1), y \in 0..(PlanInsideHeight - 1)} |->
        createPavingData(PavingType(name, category, name), name)]

\* one floor of a nested space: its entities and its surface
Floor(its, paving) == [items |-> its, paving |-> paving]

\* new Interior(...): one ground floor with the default surface, no cellar
Interior(id, buildingId) ==
    [id |-> id, buildingId |-> buildingId, floors |-> 1,
     ground |-> Floor(<<>>, floorPaving("interior_floor", "interior")), cellar |-> <<>>]

\* addCellarFloor without its test for a cellar that is there already
withCellarFloorAnew(interior) ==
    [interior EXCEPT !.cellar = <<Floor(<<>>, floorPaving("Arkose", "stone"))>>]

\* Interior.addCellarFloor: a floor -1 with the cellar surface, once
withCellarFloor(interior) ==
    IF interior.cellar # <<>>
    THEN interior
    ELSE [interior EXCEPT !.cellar = <<Floor(<<>>, floorPaving("Arkose", "stone"))>>]

\* the floor numbers an Interior has managers for
floorNumbers(interior) == {0} \cup (IF interior.cellar # <<>> THEN {-1} ELSE {})

floorOf(interior, floor) == IF floor = 0 THEN interior.ground ELSE interior.cellar[1]

floorToJSON(floor) == [items |-> itemsToJSON(floor.items), paving |-> toJSONOf(floor.paving)]

\* Interior.toJSON: floorData per floor, the ground floor again at the root
interiorToJSON(interior) ==
    [id |-> interior.id, buildingId |-> interior.buildingId, floors |-> interior.floors,
     items |-> itemsToJSON(interior.ground.items),
     paving |-> toJSONOf(interior.ground.paving),
     floorData |-> <<[f \in floorNumbers(interior) |-> floorToJSON(floorOf(interior, f))]>>]

\* the types named in a surface document; every one of them has its image
typesIn(data) == {data[k].name : k \in DOMAIN data}

\* gridManager.loadItems and pavingManager.loadPaving of one floor
floorFromJSON(floorInfo) ==
    Floor(itemsFromJSON(floorInfo.items),
          loadPavingOf(NoPaving, floorInfo.paving, typesIn(floorInfo.paving)))

\* Interior.fromJSON: floorData when the record has it, else the root fields
interiorFromJSON(data) ==
    LET interior == Interior(data.id, data.buildingId)
    IN  IF data.floorData # <<>>
        THEN LET floorData == data.floorData[1]
                 dug == IF -1 \in DOMAIN floorData THEN withCellarFloor(interior) ELSE interior
             IN  [dug EXCEPT
                    !.ground = IF 0 \in DOMAIN floorData
                               THEN floorFromJSON(floorData[0]) ELSE @,
                    !.cellar = IF -1 \in DOMAIN floorData
                               THEN <<floorFromJSON(floorData[-1])>> ELSE @]
        ELSE [interior EXCEPT !.ground = floorFromJSON([items |-> data.items, paving |-> data.paving])]

\* InteriorManager.toJSON: one record per nested space, keyed by its id
interiorsToJSON(interiors) == [i \in 1..Len(interiors) |-> interiorToJSON(interiors[i])]

\* InteriorManager.loadInteriors: the registry is cleared, then filled
loadInteriors(data) == [i \in 1..Len(data) |-> interiorFromJSON(data[i])]

\* the parts of a document a load reads
DocumentFields == {"gridSize", "gridWidth", "gridHeight", "items", "paving", "interiors"}

\* a file as the load sees it: whether JSON.parse accepts it, the fields the
\* parsed document has, those of them that have the wrong shape (a number
\* where a list or a map is expected), and the value of every field
Document(parses, fields, bad, gridSize, width, height, its, paving, interiors) ==
    [parses |-> parses, fields |-> fields, bad |-> bad, gridSize |-> gridSize,
     gridWidth |-> width, gridHeight |-> height, items |-> its, paving |-> paving,
     interiors |-> interiors]

NoPlanDocument == Document(FALSE, {}, {}, 0, 0, 0, <<>>, NoPaving, <<>>)

\* PersistenceService.createSaveData
createSaveData(width, height, its, paving, interiors) ==
    Document(TRUE, {"gridWidth", "gridHeight", "items", "paving", "interiors"}, {}, 0,
             width, height, itemsToJSON(its), toJSONOf(paving), interiorsToJSON(interiors))

\* what a session holds, without the file and the ghosts
Session(width, height, its, paving, interiors) ==
    [gridWidth |-> width, gridHeight |-> height, items |-> its, paving |-> paving,
     interiors |-> interiors]

sessionOf(p) == Session(p.gridWidth, p.gridHeight, p.items, p.paving, p.interiors)

NewSession == Session(DefaultGrid, DefaultGrid, <<>>, NoPaving, <<>>)

PlanNew ==
    [gridWidth |-> DefaultGrid, gridHeight |-> DefaultGrid, items |-> <<>>,
     paving |-> NoPaving, interiors |-> <<>>, file |-> <<>>, saved |-> <<>>,
     was |-> NewSession, arg |-> NoPlanDocument, threw |-> FALSE, op |-> "new",
     steps |-> 0, shots |-> NoPaving, live |-> 0, orig |-> NoPaving,
     activeInteriorId |-> 0, activeFloor |-> 0]

\* the value `v || 50` of a size field
orDefault(v) == IF v = 0 THEN DefaultGrid ELSE v

\* handleLoad, the grid size: the legacy single size when the document has it
\* and lacks the width or the height, else width and height or the default;
\* a field the document lacks reads as undefined, which `||` replaces too
loadedWidth(data) ==
    IF "gridSize" \in data.fields
       /\ ("gridWidth" \notin data.fields \/ "gridHeight" \notin data.fields)
    THEN data.gridSize
    ELSE IF "gridWidth" \in data.fields THEN orDefault(data.gridWidth) ELSE DefaultGrid

loadedHeight(data) ==
    IF "gridSize" \in data.fields
       /\ ("gridWidth" \notin data.fields \/ "gridHeight" \notin data.fields)
    THEN data.gridSize
    ELSE IF "gridHeight" \in data.fields THEN orDefault(data.gridHeight) ELSE DefaultGrid

\* whether reading the field throws: it is not there, or has the wrong shape
unreadable(data, field) == field \notin data.fields \/ field \in data.bad

\* how far handleLoad gets with a document: "null" when loadPlan resolves
\* null, else the statement that throws, else "done"
loadEnds(data) ==
    IF ~data.parses THEN "null"
    ELSE IF unreadable(data, "items") THEN "items"
    ELSE IF unreadable(data, "paving") THEN "paving"
    ELSE IF "interiors" \in data.bad THEN "interiors"
    ELSE "done"

\* the buildables of the persistence model: a building with a nested space
\* and a wall segment laid with the line tool
PlanBuildable(name, width, height, withInterior) ==
    [name |-> name, width |-> width, height |-> height, hasInterior |-> withInterior]

PlanBuildables ==
    {PlanBuildable("House", 1, 2, TRUE), PlanBuildable("Palisade", 1, 1, FALSE)}

\* the cells of the outer grid a placement is tried at, row 0
PlanXs == {0, 2}
\* the orientation and rotation a buildable is placed with
PlanOrientations(b) == IF b.hasInterior THEN {"none"} ELSE {"horizontal", "corner"}
PlanRotations(b) == IF b.hasInterior THEN {0, 90} ELSE {0}
\* the sizes a user types into the width and height fields
PlanSides == {0, 20}

\* BuildableItem.createPlacedItem: a quarter turn swaps width and height
createPlanItem(b, x, y, orientation, rotation) ==
    IF rotation \in {90, 270}
    THEN PlanItem(b.name, x, y, b.height, b.width, orientation, rotation, 0)
    ELSE PlanItem(b.name, x, y, b.width, b.height, orientation, rotation, 0)

\* the id createInterior makes: a fresh one
planInteriorId(interiors) ==
    CHOOSE id \in 1..(Len(interiors) + 1) : \A k \in 1..Len(interiors) : interiors[k].id # id

\* item.hasInterior read from an entity the constructor has made: the
\* constructor sets no property of that name, the read yields undefined
flagged(item) == "hasInterior" \in DOMAIN item /\ item.hasInterior

\* the pass of handleLoad over the loaded entities that creates the nested
\* space of a flagged building without a link, from entity k on
RECURSIVE createMissingIn(_, _)
createMissingIn(s, k) ==
    IF k > Len(s.items) THEN s
    ELSE LET item == s.items[k]
             buildableData == {b \in PlanBuildables : b.name = item.name /\ b.hasInterior}
             interiorId == planInteriorId(s.interiors)
         IN  IF flagged(item) /\ item.interiorId = 0 /\ buildableData # {}
             THEN createMissingIn(
                      [s EXCEPT !.items[k].interiorId = interiorId,
                                !.interiors = Append(@, Interior(interiorId, buildingIdOf(item)))],
                      k + 1)
             ELSE createMissingIn(s, k + 1)

\* handleLoad run on session s: every statement before the one that throws
\* has taken effect
loadPlanInto(s, data) ==
    LET ends == loadEnds(data)
        sized == [s EXCEPT !.gridWidth = loadedWidth(data),
                           !.gridHeight = loadedHeight(data)]
        filled == [sized EXCEPT !.items = itemsFromJSON(data.items)]
        \* loadPaving clears the surface before it reads the data
        bare == [filled EXCEPT !.paving = NoPaving]
        paved == [filled EXCEPT
                    !.paving = loadPavingOf(NoPaving, data.paving, typesIn(data.paving))]
        \* loadInteriors clears the registry before it reads the data
        emptied == [paved EXCEPT !.interiors = <<>>]
        housed == IF "interiors" \in data.fields
                  THEN [paved EXCEPT !.interiors = loadInteriors(data.interiors)]
                  ELSE paved
    IN  CASE ends = "null" -> s
          [] ends = "items" -> sized
          [] ends = "paving" -> bare
          [] ends = "interiors" -> emptied
          [] OTHER -> createMissingIn(housed, 1)

\* saveCurrentState on the log of the session
planSaveState(op) ==
    /\ LET snapshot == hist.saves + 1
       IN  /\ history' = historyUpdater(history, currentIndex, snapshot)
           /\ currentIndex' = indexUpdater(currentIndex)
           /\ hist' = [op |-> op, ret |-> snapshot, saves |-> snapshot, forks |-> hist.forks]

\* clearHistory followed by saveCurrentState in the same handler: saveState
\* slices with the cursor the handler closed over, the updaters run on the
\* cleared log
planRestartHistory(op) ==
    /\ LET snapshot == hist.saves + 1
       IN  /\ history' = historyUpdater(<<>>, currentIndex, snapshot)
           /\ currentIndex' = indexUpdater(-1)
           /\ hist' = [op |-> op, ret |-> snapshot, saves |-> snapshot, forks |-> hist.forks]

\* the copy saveState stores of an entity: the constructor is given name,
\* category, position, size, colour and image, and fills in the rest
clonedItem(item) ==
    PlanItem(item.name, item.x, item.y, item.width, item.height, "none", 0, 0)

\* the copy that keeps orientation, rotation and link
clonedWhole(item) ==
    PlanItem(item.name, item.x, item.y, item.width, item.height, item.orientation,
             item.rotation, item.interiorId)

\* the snapshot saveState pushes
planShot(its, paving) ==
    [items |-> [k \in 1..Len(its) |-> clonedItem(its[k])], paving |-> toJSONOf(paving)]

\* the snapshots after the grid's entity array has become its: a snapshot
\* whose array the grid holds changes with it
planShots(its) ==
    [id \in DOMAIN plan.shots |->
        IF id = plan.live THEN [plan.shots[id] EXCEPT !.items = its] ELSE plan.shots[id]]

\* the log after saveCurrentState
planLog == historyUpdater(history, currentIndex, hist.saves + 1)

\* the fields of plan an edit leaves alone; saves tells whether the handler
\* ends with saveCurrentState
planAfter(op, s, saves) ==
    [gridWidth |-> s.gridWidth, gridHeight |-> s.gridHeight, items |-> s.items,
     paving |-> s.paving, interiors |-> s.interiors, file |-> plan.file,
     saved |-> plan.saved, was |-> plan.was, arg |-> plan.arg, threw |-> plan.threw,
     op |-> op, steps |-> plan.steps + 1,
     shots |-> IF saves
               THEN [id \in {planLog[k] : k \in 1..Len(planLog)} |->
                        IF id = hist.saves + 1 THEN planShot(s.items, s.paving)
                        ELSE planShots(s.items)[id]]
               ELSE planShots(s.items),
     live |-> plan.live,
     orig |-> IF saves
              THEN [id \in {planLog[k] : k \in 1..Len(planLog)} |->
                       IF id = hist.saves + 1 THEN s.items ELSE plan.orig[id]]
              ELSE plan.orig,
     activeInteriorId |-> plan.activeInteriorId, activeFloor |-> plan.activeFloor]

\* PlannerCanvas.handleMouseDown on the outer grid: the entity is added, a
\* building gets its nested space and the link to it, the state is saved
placeOnPlan(b, x, orientation, rotation) ==
    LET newItem == createPlanItem(b, x, 0, orientation, rotation)
        interiorId == planInteriorId(plan.interiors)
        linked == IF b.hasInterior THEN [newItem EXCEPT !.interiorId = interiorId] ELSE newItem
    IN  /\ Len(plan.items) < MaxPlanItems
        /\ canPlaceItemIn(plan.items, plan.gridWidth, plan.gridHeight, newItem.x, newItem.y,
                          newItem.width, newItem.height, 0, FALSE)
        /\ plan' = planAfter("place",
                       [sessionOf(plan) EXCEPT
                          !.items = Append(@, linked),
                          !.interiors = IF b.hasInterior
                                        THEN Append(@, Interior(interiorId, buildingIdOf(newItem)))
                                        ELSE @], TRUE)
        /\ planSaveState("place")

\* PlannerCanvas.handleMouseDown inside nested space k: the entity is added
\* to the ground floor, no nested space is made
placeInPlan(k) ==
    LET newItem == createPlanItem(PlanBuildable("Chest", 1, 1, FALSE), 0, 0, "none", 0)
    IN  /\ plan.interiors[k].ground.items = <<>>
        /\ plan' = planAfter("placeIn",
                       [sessionOf(plan) EXCEPT !.interiors[k].ground.items = <<newItem>>], TRUE)
        /\ planSaveState("placeIn")

\* addCellarFloor called on nested space k
addCellarFloorOf(k) ==
    /\ plan' = planAfter("addCellarFloor",
                   [sessionOf(plan) EXCEPT !.interiors[k] = withCellarFloor(@)], FALSE)
    /\ UNCHANGED historyVars

\* a paving stroke on the outer surface
pavePlan(paving) ==
    /\ plan' = planAfter("pave",
                   [sessionOf(plan) EXCEPT
                      !.paving = gridSet(@, <<0, 0>>, createPavingData(paving, paving.name))],
                   TRUE)
    /\ planSaveState("pave")

\* the width and height fields of the toolbar
onGridWidthChange(width) ==
    /\ plan' = planAfter("resize", [sessionOf(plan) EXCEPT !.gridWidth = width], FALSE)
    /\ UNCHANGED historyVars

onGridHeightChange(height) ==
    /\ plan' = planAfter("resize", [sessionOf(plan) EXCEPT !.gridHeight = height], FALSE)
    /\ UNCHANGED historyVars

\* App.handleSave: the document is written to the file
handleSave ==
    /\ plan' = [plan EXCEPT
                  !.file = <<createSaveData(plan.gridWidth, plan.gridHeight, plan.items,
                                            plan.paving, plan.interiors)>>,
                  !.saved = <<sessionOf(plan)>>,
                  !.op = "save",
                  !.steps = @ + 1]
    /\ UNCHANGED historyVars

\* App.handleLoad given a file: the log restarts when the last statement is
\* reached, and is left alone when loadPlan resolves null or a statement throws
loadThe(op, s, data) ==
    LET ends == loadEnds(data)
        loaded == loadPlanInto(s, data)
    IN  /\ plan' = [gridWidth |-> loaded.gridWidth, gridHeight |-> loaded.gridHeight,
                    items |-> loaded.items, paving |-> loaded.paving,
                    interiors |-> loaded.interiors, file |-> plan.file,
                    saved |-> plan.saved, was |-> s, arg |-> data,
                    threw |-> ends \notin {"null", "done"}, op |-> op,
                    steps |-> plan.steps + 1,
                    shots |-> IF ends = "done"
                              THEN [id \in {hist.saves + 1} |->
                                       planShot(loaded.items, loaded.paving)]
                              ELSE plan.shots,
                    live |-> IF ends \in {"null", "items"} THEN plan.live ELSE 0,
                    orig |-> IF ends = "done"
                             THEN [id \in {hist.saves + 1} |-> loaded.items]
                             ELSE plan.orig,
                    \* handleLoad sets neither; a session that has just
                    \* started has no nested space open
                    activeInteriorId |-> IF op = "load" THEN plan.activeInteriorId ELSE 0,
                    activeFloor |-> IF op = "load" THEN plan.activeFloor ELSE 0]
        /\ IF ends = "done" THEN planRestartHistory(op) ELSE UNCHANGED historyVars

handleLoadPlan(data) == loadThe("load", sessionOf(plan), data)

\* App.handleUndo: the snapshot before the cursor becomes the grid's entity
\* array and is loaded into the surface; the nested spaces are left alone
handleUndoPlan ==
    /\ canUndo
    /\ currentIndex' = currentIndex - 1
    /\ hist' = [op |-> "undo", ret |-> history[currentIndex], saves |-> hist.saves,
                forks |-> hist.forks]
    /\ LET state == plan.shots[history[currentIndex]]
       IN  plan' = [plan EXCEPT
                      !.items = state.items,
                      !.paving = loadPavingOf(NoPaving, state.paving, typesIn(state.paving)),
                      !.live = history[currentIndex],
                      !.op = "undo",
                      !.steps = @ + 1]
    /\ UNCHANGED history

\* the fields of plan after a handler that calls saveCurrentState and then
\* edits session s: the snapshot is of the state before the edit; aliased
\* tells whether the grid still holds the entity array it held
planSavedThen(op, s, aliased) ==
    [planAfter(op, s, FALSE) EXCEPT
        !.shots = [id \in {planLog[k] : k \in 1..Len(planLog)} |->
                      IF id = hist.saves + 1 THEN planShot(plan.items, plan.paving)
                      ELSE IF aliased THEN planShots(s.items)[id]
                      ELSE plan.shots[id]],
        !.orig = [id \in {planLog[k] : k \in 1..Len(planLog)} |->
                     IF id = hist.saves + 1 THEN plan.items ELSE plan.orig[id]],
        !.live = IF aliased THEN plan.live ELSE 0]

\* interiorManager.getInterior(activeInteriorId): the places of the registry
\* that hold the space, none when there is no such space
getInteriorOf(p) == {k \in 1..Len(p.interiors) : p.interiors[k].id = p.activeInteriorId}

\* App.onOpenInterior, called by a double click on entity k of the outer grid
\* with the entity's link, while no nested space is open
onOpenInterior(k) ==
    /\ plan.activeInteriorId = 0
    /\ plan.items[k].interiorId # 0
    /\ plan' = [plan EXCEPT !.activeInteriorId = plan.items[k].interiorId,
                            !.activeFloor = 0, !.op = "open", !.steps = @ + 1]
    /\ UNCHANGED historyVars

\* App.onCloseInterior: the button of the overlay of an open nested space
onCloseInterior ==
    /\ plan.activeInteriorId # 0
    /\ plan' = [plan EXCEPT !.activeInteriorId = 0, !.activeFloor = 0,
                            !.op = "close", !.steps = @ + 1]
    /\ UNCHANGED historyVars

\* Escape with a nested space open: the space is closed, the floor stays
escapeKey ==
    /\ plan.activeInteriorId # 0
    /\ plan' = [plan EXCEPT !.activeInteriorId = 0, !.op = "escape", !.steps = @ + 1]
    /\ UNCHANGED historyVars

\* App.onFloorChange = setActiveFloor, for a floor of the open nested space
setActiveFloor(floor) ==
    /\ \E k \in getInteriorOf(plan) : floor \in floorNumbers(plan.interiors[k])
    /\ plan' = [plan EXCEPT !.activeFloor = floor, !.op = "floor", !.steps = @ + 1]
    /\ UNCHANGED historyVars

\* the entity array without its k-th entity
splice(its, k) == [j \in 1..(Len(its) - 1) |-> IF j < k THEN its[j] ELSE its[j + 1]]

\* Delete or Backspace with entity k selected: on the outer grid the entity
\* goes with the nested space registered under its name and position; with
\* a nested space open the entity is taken from that space's floor 0
deleteKey(k) ==
    /\ IF plan.activeInteriorId = 0
       THEN /\ k \in 1..Len(plan.items)
            /\ plan' = planSavedThen("delete",
                           [sessionOf(plan) EXCEPT
                              !.items = splice(@, k),
                              !.interiors = IF plan.items[k].interiorId # 0
                                            THEN removeInterior(@, buildingIdOf(plan.items[k]))
                                            ELSE @], TRUE)
       ELSE \E i \in getInteriorOf(plan) :
            /\ k \in 1..Len(plan.interiors[i].ground.items)
            /\ plan' = planSavedThen("delete",
                           [sessionOf(plan) EXCEPT !.interiors[i].ground.items = splice(@, k)],
                           TRUE)
    /\ planSaveState("delete")

\* App.handleClear: the state is saved, then the grid, the surface and the
\* registry are emptied
handleClearPlan ==
    /\ plan' = planSavedThen("clear",
                   [sessionOf(plan) EXCEPT !.items = <<>>, !.paving = NoPaving,
                                           !.interiors = <<>>], FALSE)
    /\ planSaveState("clear")

\* the saved file opened in a session that has just started
reloadPlan ==
    /\ plan.file # <<>>
    /\ loadThe("reload", NewSession, plan.file[1])

\* a document as an older version wrote it: one size instead of two
legacyOf(data, size) ==
    [data EXCEPT !.fields = (@ \ {"gridWidth", "gridHeight"}) \cup {"gridSize"},
                 !.gridSize = size]

\* the saved file, rewritten with the legacy size, opened in a session that
\* has just started
reloadLegacy(size) ==
    /\ plan.file # <<>>
    /\ loadThe("reloadLegacy", NewSession, legacyOf(plan.file[1], size))

\* files from elsewhere: a plan with a building whose nested space has a
\* cellar, the same plan with parts missing or of the wrong shape (items or
\* paving null, interiors holding a null entry), and a file that is no JSON
CellarPlan ==
    LET house == itemToJSON(PlanItem("House", 0, 0, 1, 2, "none", 0, 0))
        chest == itemToJSON(PlanItem("Chest", 0, 0, 1, 1, "none", 0, 0))
        stone == toJSONOf(gridSet(NoPaving, <<0, 0>>, PavingType("Stone", "stone", "stone.png")))
        floor == toJSONOf(floorPaving("interior_floor", "interior"))
        interior == [id |-> 1, buildingId |-> <<"House", 0, 0>>, floors |-> 1,
                     items |-> <<>>, paving |-> floor,
                     floorData |-> <<[f \in {-1, 0} |->
                                        IF f = 0 THEN [items |-> <<>>, paving |-> floor]
                                        ELSE [items |-> <<chest>>, paving |-> stone]]>>]
    IN  Document(TRUE, {"gridWidth", "gridHeight", "items", "paving", "interiors"}, {},
                 0, 20, 20, <<house>>, stone, <<interior>>)

PlanDocuments ==
    { CellarPlan,
      [CellarPlan EXCEPT !.fields = @ \cup {"gridSize"}, !.gridSize = 30],
      [CellarPlan EXCEPT !.fields = @ \cup {"gridSize"}, !.gridSize = 30, !.gridWidth = 0],
      [CellarPlan EXCEPT !.fields = (@ \ {"gridHeight"}) \cup {"gridSize"}, !.gridSize = 30],
      [CellarPlan EXCEPT !.fields = (@ \ {"gridWidth", "gridHeight", "interiors"})
                                        \cup {"gridSize"}, !.gridSize = 30],
      [CellarPlan EXCEPT !.fields = @ \ {"gridWidth", "gridHeight"}],
      [CellarPlan EXCEPT !.fields = @ \ {"interiors"}],
      [CellarPlan EXCEPT !.fields = @ \ {"items"}],
      [CellarPlan EXCEPT !.fields = @ \ {"paving"}],
      [CellarPlan EXCEPT !.bad = {"items"}],
      [CellarPlan EXCEPT !.bad = {"paving"}],
      [CellarPlan EXCEPT !.bad = {"interiors"}],
      [CellarPlan EXCEPT !.parses = FALSE] }

(* ------------------------------ PlannerCanvas -------------------------- *)
\* yard.items is the outer grid's entity array with the fields the canvas
\* reads (usesLineTool, orientation) and, as id, the identity of each object;
\* yard.next is the id of the next object made, yard.saves the number of
\* onStateChange calls, yard.op, yard.arg and yard.was the last handler, what
\* it was given and the entity array it found.
YardWidth == 4
YardHeight == 3
MaxYardSteps == 3

YardItem(id, name, x, y, width, height, usesLineTool, orientation) ==
    [id |-> id, name |-> name, x |-> x, y |-> y, width |-> width, height |-> height,
     usesLineTool |-> usesLineTool, orientation |-> orientation]

\* the buildables of the sidebar placed by a click: a gate that replaces wall
\* segments and a plain one-cell structure
YardBuildable(name, width, height, requiresPalisadeOverlap) ==
    [name |-> name, width |-> width, height |-> height,
     requiresPalisadeOverlap |-> requiresPalisadeOverlap]

YardBuildables == {YardBuildable("Gate", 3, 1, TRUE), YardBuildable("Well", 1, 1, FALSE)}

NoYardArg ==
    [id |-> 0, x |-> 0, y |-> 0, width |-> 0, height |-> 0,
     requiresPalisadeOverlap |-> FALSE, cells |-> <<>>]

YardNew ==
    [items |-> <<>>, next |-> 1, saves |-> 0, op |-> "new", arg |-> NoYardArg,
     was |-> <<>>, steps |-> 0]

\* the array after removeItem of every object whose id is in ids
RECURSIVE withoutIds(_, _)
withoutIds(its, ids) ==
    IF its = <<>> THEN <<>>
    ELSE IF Head(its).id \in ids THEN withoutIds(Tail(its), ids)
    ELSE <<Head(its)>> \o withoutIds(Tail(its), ids)

\* items.find(...) of the placement handler for one cell of the span: the
\* first wall segment whose origin is the cell and whose orientation is one of
\* those named
segmentsAt(its, x, y, orientations) ==
    LET found == {i \in 1..Len(its) : /\ its[i].x = x /\ its[i].y = y
                                      /\ its[i].usesLineTool
                                      /\ its[i].orientation \in orientations}
    IN  {its[i].id : i \in {j \in found : \A k \in found : j <= k}}

\* palisadesToRemove: the segments found along the long axis of the span
palisadesToRemove(its, x, y, itemWidth, itemHeight) ==
    IF itemWidth > itemHeight
    THEN UNION {segmentsAt(its, cx, y, {"horizontal", "corner"}) : cx \in x..(x + itemWidth - 1)}
    ELSE UNION {segmentsAt(its, x, cy, {"vertical", "corner"}) : cy \in y..(y + itemHeight - 1)}

\* PlannerCanvas.handleMouseDown with a buildable selected that is not laid
\* with the line tool, on the outer grid: for a buildable that needs wall
\* segments under it those segments are removed first, then addItem is tried
placeOnYard(b, x, y, rotation) ==
    LET shouldSwap == rotation \in {90, 270}
        itemWidth == IF shouldSwap THEN b.height ELSE b.width
        itemHeight == IF shouldSwap THEN b.width ELSE b.height
        toRemove == palisadesToRemove(yard.items, x, y, itemWidth, itemHeight)
        canPlace == b.requiresPalisadeOverlap => toRemove # {}
        cleared == IF b.requiresPalisadeOverlap THEN withoutIds(yard.items, toRemove)
                   ELSE yard.items
        newItem == YardItem(yard.next, b.name, x, y, itemWidth, itemHeight, FALSE, "none")
        added == /\ canPlace
                 /\ canPlaceItemIn(cleared, YardWidth, YardHeight, x, y, itemWidth,
                                   itemHeight, 0, FALSE)
    IN  yard' = [items |-> IF added THEN Append(cleared, newItem) ELSE cleared,
                 next |-> yard.next + 1, saves |-> yard.saves, op |-> "place",
                 arg |-> [id |-> yard.next, x |-> x, y |-> y, width |-> itemWidth,
                          height |-> itemHeight,
                          requiresPalisadeOverlap |-> b.requiresPalisadeOverlap,
                          cells |-> <<>>],
                 was |-> yard.items, steps |-> yard.steps + 1]

\* gridManager.getItemAt: the places of the first entity that contains the cell
getItemAt(its, x, y) ==
    LET found == {i \in 1..Len(its) : contains(its[i], x, y)}
    IN  {j \in found : \A k \in found : j <= k}

\* the orientation of the linear structure standing on a cell
orientationAt(its, cell) ==
    IF \E i \in getItemAt(its, cell.x, cell.y) : its[i].usesLineTool
    THEN its[CHOOSE i \in getItemAt(its, cell.x, cell.y) : TRUE].orientation
    ELSE "none"

\* the loop of handleClick over the cells of a completed line, from cell i on:
\* y is the yard so far, gates the entity array read before the loop
RECURSIVE placeCells(_, _, _, _)
placeCells(y, gates, allCells, i) ==
    IF i > Len(allCells) THEN y
    ELSE LET cell == allCells[i]
             existingItem == getItemAt(y.items, cell.x, cell.y)
             overlapsGate == \E k \in 1..Len(gates) :
                                 /\ NameIncludesGate(gates[k].name)
                                 /\ contains(gates[k], cell.x, cell.y)
             upgrades == /\ cell.orientation = "corner"
                         /\ \E e \in existingItem : /\ y.items[e].name = "Palisade"
                                                    /\ y.items[e].orientation # "corner"
             removed == IF /\ cell.orientation = "corner"
                           /\ \E e \in existingItem : y.items[e].name = "Palisade"
                        THEN withoutIds(y.items, {y.items[e].id : e \in existingItem})
                        ELSE y.items
             newItem == YardItem(y.next, "Palisade", cell.x, cell.y, 1, 1, TRUE, cell.orientation)
         IN  IF overlapsGate
             THEN placeCells([y EXCEPT !.saves = 1], gates, allCells, i + 1)
             ELSE IF upgrades
             THEN placeCells([y EXCEPT
                                !.items = [k \in 1..Len(y.items) |->
                                              IF k \in existingItem
                                              THEN [y.items[k] EXCEPT !.orientation = "corner"]
                                              ELSE y.items[k]],
                                !.saves = 1], gates, allCells, i + 1)
             ELSE IF canPlaceItemIn(removed, YardWidth, YardHeight, cell.x, cell.y, 1, 1, 0, FALSE)
             THEN placeCells([y EXCEPT !.items = Append(removed, newItem),
                                       !.next = @ + 1, !.saves = 1], gates, allCells, i + 1)
             ELSE placeCells([y EXCEPT !.items = removed, !.next = @ + 1],
                             gates, allCells, i + 1)

\* PlannerCanvas.handleClick that completes a line from s to p: the cells of
\* the run with their tags are placed one by one, and the state is saved when
\* one of them counted as placed
placeLineOnYard(dir, s, p) ==
    LET run == cells(dir, s, p)
        allCells == cellsWithCorners([currentSegment |-> run, currentDirection |-> dir],
                                     orientationAt(yard.items, run[Len(run)]))
        placed == placeCells([yard EXCEPT !.saves = 0], yard.items, allCells, 1)
    IN  /\ s # p
        /\ yard' = [placed EXCEPT !.saves = yard.saves + placed.saves, !.op = "line",
                                  !.arg = [NoYardArg EXCEPT !.cells = allCells],
                                  !.was = yard.items, !.steps = yard.steps + 1]

(* ------------------------------ specifications ------------------------- *)
Init ==
    /\ gridWidth = MaxGrid
    /\ gridHeight = MaxGrid
    /\ items = <<>>
    /\ last = NoCall("new")
    /\ history = <<>>
    /\ currentIndex = -1
    /\ hist = [op |-> "new", ret |-> 0, saves |-> 0, forks |-> 0]
    /\ app = AppNew
    /\ space = SpaceNew
    /\ tool = ToolNew
    /\ surface = SurfaceNew
    /\ plan = PlanNew
    /\ walk = WalkNew
    /\ yard = YardNew

AddItem == \E item \in Candidates : addItem(item) /\ UNCHANGED <<historyVars, sessionVars>>
RemoveItem == \E i \in 1..Len(items) : removeItem(i) /\ UNCHANGED <<historyVars, sessionVars>>
MoveItem ==
    \E i \in 1..Len(items), newX \in Coords, newY \in Coords :
        moveItem(i, newX, newY) /\ UNCHANGED <<historyVars, sessionVars>>
RotateItem == \E i \in 1..Len(items) : rotateItem(i) /\ UNCHANGED <<historyVars, sessionVars>>
SetGridSize ==
    \E width \in GridSides, height \in GridSides :
        setGridSize(width, height) /\ UNCHANGED <<historyVars, sessionVars>>
Clear == clear /\ UNCHANGED <<historyVars, sessionVars>>
LoadItems == \E list \in Documents : loadItems(list) /\ UNCHANGED <<historyVars, sessionVars>>

SaveState == saveState /\ UNCHANGED <<gridVars, sessionVars>>
Undo == undo /\ UNCHANGED <<gridVars, sessionVars>>
Redo == redo /\ UNCHANGED <<gridVars, sessionVars>>
ClearHistory == clearHistory /\ UNCHANGED <<gridVars, sessionVars>>

\* the occupancy grid under every GridManager operation
NextGrid ==
    \/ AddItem
    \/ RemoveItem
    \/ MoveItem
    \/ RotateItem
    \/ SetGridSize
    \/ Clear
    \/ LoadItems

SpecGrid == Init /\ [][NextGrid]_vars

\* the history log, one hook call per input event
NextHistory ==
    \/ SaveState
    \/ Undo
    \/ Redo
    \/ ClearHistory

SpecHistory == Init /\ [][NextHistory]_vars

\* canPlaceItem as a function of the grid: any grid of at most MaxItems
\* entities (loadItems installs any list), wide enough for a candidate to sit
\* on either side of a gate
PlaceWidth == MaxGrid + 2
PlaceHeight == MaxGrid
PlaceXs == -1..PlaceWidth
PlaceYs == -1..PlaceHeight

PlaceItems ==
    { moveTo(c, x, y) : c \in Catalog \cup {rotate(k) : k \in Catalog},
                        x \in 0..(PlaceWidth - 1), y \in 0..(PlaceHeight - 1) }

PlaceGrids ==
    UNION { [1..n -> { c \in PlaceItems : /\ c.x + c.width <= PlaceWidth
                                          /\ c.y + c.height <= PlaceHeight }]
            : n \in 0..MaxItems }

InitPlace ==
    /\ gridWidth = PlaceWidth
    /\ gridHeight = PlaceHeight
    /\ items \in PlaceGrids
    /\ last = NoCall("new")
    /\ history = <<>>
    /\ currentIndex = -1
    /\ hist = [op |-> "new", ret |-> 0, saves |-> 0, forks |-> 0]
    /\ app = AppNew
    /\ space = SpaceNew
    /\ tool = ToolNew
    /\ surface = SurfaceNew
    /\ plan = PlanNew
    /\ walk = WalkNew
    /\ yard = YardNew

CanPlaceItemQuery ==
    \E c \in Catalog \cup {rotate(k) : k \in Catalog}, x \in PlaceXs, y \in PlaceYs,
       excludeItem \in ItemRefs(items) :
        /\ canPlaceItemQuery(x, y, c.width, c.height, excludeItem, c.requiresPalisadeOverlap)
        /\ UNCHANGED <<historyVars, sessionVars>>

NextPlace == CanPlaceItemQuery

SpecPlace == InitPlace /\ [][NextPlace]_vars

Next == NextGrid \/ NextHistory

Spec == Init /\ [][Next]_vars

\* The application: the session once App has mounted and saved the empty plan,
\* driven by the gestures and keys of the editor, every image complete
InitApp ==
    /\ gridWidth = AppGrid
    /\ gridHeight = AppGrid
    /\ items = <<>>
    /\ last = NoCall("new")
    /\ history = <<1>>
    /\ currentIndex = 0
    /\ hist = [op |-> "new", ret |-> 0, saves |-> 1, forks |-> 0]
    /\ app = AppMounted
    /\ space = SpaceNew
    /\ tool = ToolNew
    /\ surface = SurfaceNew
    /\ plan = PlanNew
    /\ walk = WalkNew
    /\ yard = YardNew

PlaceBuildable ==
    \E b \in AppCatalog, x \in AppCells, y \in AppCells :
        placeBuildable(b, x, y) /\ UNCHANGED <<space, tool, surface, plan, walk, yard>>
DragPlaced ==
    \E i \in 1..Len(items), x \in AppCells, y \in AppCells :
        dragPlaced(i, x, y) /\ UNCHANGED <<space, tool, surface, plan, walk, yard>>
PaintPaving == \E pav \in BOOLEAN : paintPaving(pav) /\ UNCHANGED <<space, tool, surface, plan, walk, yard>>
DeleteSelected == \E i \in 1..Len(items) : deleteSelected(i) /\ UNCHANGED <<space, tool, surface, plan, walk, yard>>
HandleDelete == \E i \in 1..Len(items) : handleDelete(i) /\ UNCHANGED <<space, tool, surface, plan, walk, yard>>
HandleRotate == \E i \in 1..Len(items) : handleRotate(i) /\ UNCHANGED <<space, tool, surface, plan, walk, yard>>
HandleClear == handleClear /\ UNCHANGED <<space, tool, surface, plan, walk, yard>>
HandleClearAllPaving == handleClearAllPaving /\ UNCHANGED <<space, tool, surface, plan, walk, yard>>
HandleUndo == handleUndo /\ UNCHANGED <<space, tool, surface, plan, walk, yard>>
HandleRedo == handleRedo /\ UNCHANGED <<space, tool, surface, plan, walk, yard>>
HandleLoad == \E doc \in AppDocuments : handleLoad(doc) /\ UNCHANGED <<space, tool, surface, plan, walk, yard>>

NextEdit ==
    \/ PlaceBuildable
    \/ DragPlaced
    \/ PaintPaving
    \/ DeleteSelected
    \/ HandleDelete
    \/ HandleRotate
    \/ HandleClear
    \/ HandleClearAllPaving

NextApp ==
    \/ NextEdit
    \/ HandleUndo
    \/ HandleRedo
    \/ HandleLoad

SpecApp == InitApp /\ [][NextApp]_vars

\* The application with images that take time: undo, redo and load stop at
\* their await and resume when the images have arrived; placements and
\* removals arrive in between
HandleUndoBegin == handleUndoBegin /\ UNCHANGED <<space, tool, surface, plan, walk, yard>>
HandleRedoBegin == handleRedoBegin /\ UNCHANGED <<space, tool, surface, plan, walk, yard>>
HandleLoadBegin ==
    \E doc \in AppDocuments :
        /\ IF doc.items = <<>> THEN handleLoad(doc) ELSE handleLoadBegin(doc)
        /\ UNCHANGED <<space, tool, surface, plan, walk, yard>>
Resume == \E k \in 1..Len(app.pending) : resume(k) /\ UNCHANGED <<space, tool, surface, plan, walk, yard>>

NextAsync ==
    \/ PlaceBuildable
    \/ DeleteSelected
    \/ HandleUndoBegin
    \/ HandleRedoBegin
    \/ HandleLoadBegin
    \/ Resume

SpecAsync == InitApp /\ [][NextAsync]_vars

\* One nested space, open in the editor
PlaceInside ==
    \E b \in InsideCatalog, x \in 0..(InsideWidth - 1) :
        placeInside(b, x) /\ UNCHANGED <<gridVars, historyVars, app, tool, surface, plan, walk, yard>>
SelectPlaced ==
    \E k \in 1..Len(space.floor0) :
        selectPlaced(k) /\ UNCHANGED <<gridVars, historyVars, app, tool, surface, plan, walk, yard>>
SelectMultiplePlaced ==
    \E ks \in SUBSET (1..Len(space.floor0)) :
        /\ ks # {}
        /\ selectMultiplePlaced(ks)
        /\ UNCHANGED <<gridVars, historyVars, app, tool, surface, plan, walk, yard>>
OnFloorChange ==
    \E floor \in {-1, 0} : onFloorChange(floor) /\ UNCHANGED <<gridVars, historyVars, app, tool, surface, plan, walk, yard>>
DeleteInside == deleteInside /\ UNCHANGED <<gridVars, historyVars, app, tool, surface, plan, walk, yard>>
DeleteItemsInside == deleteItemsInside /\ UNCHANGED <<gridVars, historyVars, app, tool, surface, plan, walk, yard>>
FromJSON == \E doc \in InsideDocuments : fromJSON(doc) /\ UNCHANGED <<gridVars, historyVars, app, tool, surface, plan, walk, yard>>

NextInterior ==
    \/ PlaceInside
    \/ SelectPlaced
    \/ SelectMultiplePlaced
    \/ OnFloorChange
    \/ DeleteInside
    \/ DeleteItemsInside
    \/ FromJSON

SpecInterior == Init /\ [][NextInterior]_vars

\* The line tool
StartLine == \E p \in Points : startLine(p) /\ UNCHANGED <<gridVars, historyVars, app, space, surface, plan, walk, yard>>
UpdateEndPoint == \E p \in Points : updateEndPoint(p) /\ UNCHANGED <<gridVars, historyVars, app, space, surface, plan, walk, yard>>
ExtendLine == \E p \in Points : extendLine(p) /\ UNCHANGED <<gridVars, historyVars, app, space, surface, plan, walk, yard>>
CompleteLine == completeLine /\ UNCHANGED <<gridVars, historyVars, app, space, surface, plan, walk, yard>>
Reset == reset /\ UNCHANGED <<gridVars, historyVars, app, space, surface, plan, walk, yard>>
Cancel == cancel /\ UNCHANGED <<gridVars, historyVars, app, space, surface, plan, walk, yard>>
GetAllCells == getAllCells /\ UNCHANGED <<gridVars, historyVars, app, space, surface, plan, walk, yard>>
GetAllCellsWithCorners ==
    \E found \in Orientations :
        getAllCellsWithCorners(found) /\ UNCHANGED <<gridVars, historyVars, app, space, surface, plan, walk, yard>>

NextLine ==
    \/ StartLine
    \/ UpdateEndPoint
    \/ ExtendLine
    \/ CompleteLine
    \/ Reset
    \/ Cancel
    \/ GetAllCells
    \/ GetAllCellsWithCorners

SpecLine == Init /\ [][NextLine]_vars

GetLineCells ==
    \E x0 \in ShapeCoords, y0 \in ShapeCoords, x1 \in ShapeCoords, y1 \in ShapeCoords :
        getLineCells(x0, y0, x1, y1) /\ UNCHANGED <<gridVars, historyVars, app, space, tool, plan, walk, yard>>
GetRectangleCells ==
    \E x0 \in ShapeCoords, y0 \in ShapeCoords, x1 \in ShapeCoords, y1 \in ShapeCoords :
        getRectangleCells(x0, y0, x1, y1) /\ UNCHANGED <<gridVars, historyVars, app, space, tool, plan, walk, yard>>
GetCircleCells ==
    \E x0 \in ShapeCoords, y0 \in ShapeCoords, x1 \in ShapeCoords, y1 \in ShapeCoords :
        getCircleCells(x0, y0, x1, y1) /\ UNCHANGED <<gridVars, historyVars, app, space, tool, plan, walk, yard>>

\* the shape generators of the surface tools (PavingManager.getCellsByShape)
NextShape ==
    \/ GetLineCells
    \/ GetRectangleCells
    \/ GetCircleCells

SpecShape == Init /\ [][NextShape]_vars

PlacePaving ==
    \E cell \in PaveCells, paving \in PavingTypes, loaded \in BOOLEAN :
        /\ placePaving(cell[1], cell[2], paving, IF loaded THEN paving.name ELSE 0)
        /\ UNCHANGED <<gridVars, historyVars, app, space, tool, plan, walk, yard>>
RemovePaving ==
    \E cell \in PaveCells :
        removePaving(cell[1], cell[2]) /\ UNCHANGED <<gridVars, historyVars, app, space, tool, plan, walk, yard>>
ClearPaving == clearPaving /\ UNCHANGED <<gridVars, historyVars, app, space, tool, plan, walk, yard>>
ToJSON == toJSON /\ UNCHANGED <<gridVars, historyVars, app, space, tool, plan, walk, yard>>
LoadPaving ==
    \E loaded \in SUBSET {paving.name : paving \in PavingTypes} :
        loadPaving(surface.json, loaded) /\ UNCHANGED <<gridVars, historyVars, app, space, tool, plan, walk, yard>>

\* one surface layer, serialised now and then and loaded from what it was
\* last serialised to
NextPaving ==
    \/ PlacePaving
    \/ RemovePaving
    \/ ClearPaving
    \/ ToJSON
    \/ LoadPaving

SpecPaving == Init /\ [][NextPaving]_vars

\* persistence: a session is edited, saved and loaded
PlaceOnPlan ==
    /\ plan.steps < MaxPlanSteps
    /\ \E b \in PlanBuildables, x \in PlanXs :
        \E orientation \in PlanOrientations(b), rotation \in PlanRotations(b) :
            placeOnPlan(b, x, orientation, rotation)
            /\ UNCHANGED <<gridVars, app, space, tool, surface, walk, yard>>
PlaceInPlan ==
    /\ plan.steps < MaxPlanSteps
    /\ \E k \in 1..Len(plan.interiors) :
        placeInPlan(k) /\ UNCHANGED <<gridVars, app, space, tool, surface, walk, yard>>
PavePlan ==
    /\ plan.steps < MaxPlanSteps
    /\ \E paving \in PavingTypes : pavePlan(paving) /\ UNCHANGED <<gridVars, app, space, tool, surface, walk, yard>>
AddCellarFloorOf ==
    /\ plan.steps < MaxPlanSteps
    /\ \E k \in 1..Len(plan.interiors) :
        addCellarFloorOf(k) /\ UNCHANGED <<gridVars, app, space, tool, surface, walk, yard>>
OnGridWidthChange ==
    /\ plan.steps < MaxPlanSteps
    /\ \E width \in PlanSides :
        onGridWidthChange(width) /\ UNCHANGED <<gridVars, app, space, tool, surface, walk, yard>>
OnGridHeightChange ==
    /\ plan.steps < MaxPlanSteps
    /\ \E height \in PlanSides :
        onGridHeightChange(height) /\ UNCHANGED <<gridVars, app, space, tool, surface, walk, yard>>
HandleSave == plan.steps < MaxPlanSteps /\ handleSave /\ UNCHANGED <<gridVars, app, space, tool, surface, walk, yard>>
HandleLoadPlan ==
    /\ plan.steps < MaxPlanSteps
    /\ \E data \in PlanDocuments :
        handleLoadPlan(data) /\ UNCHANGED <<gridVars, app, space, tool, surface, walk, yard>>
ReloadPlan == plan.steps < MaxPlanSteps /\ reloadPlan /\ UNCHANGED <<gridVars, app, space, tool, surface, walk, yard>>
HandleUndoPlan ==
    plan.steps < MaxPlanSteps /\ handleUndoPlan /\ UNCHANGED <<gridVars, app, space, tool, surface, walk, yard>>
ReloadLegacy ==
    /\ plan.steps < MaxPlanSteps
    /\ \E size \in PlanSides \ {0} :
        reloadLegacy(size) /\ UNCHANGED <<gridVars, app, space, tool, surface, walk, yard>>

NextPersist ==
    \/ PlaceOnPlan
    \/ PlaceInPlan
    \/ PavePlan
    \/ OnGridWidthChange
    \/ OnGridHeightChange
    \/ HandleSave
    \/ HandleLoadPlan
    \/ ReloadPlan
    \/ ReloadLegacy
    \/ HandleUndoPlan
    \/ AddCellarFloorOf

SpecPersist == Init /\ [][NextPersist]_vars

\* the editor with nested spaces that are opened and closed: the handlers of
\* App that read or set the open space and its floor
MaxActiveSteps == 5

\* the document of CellarPlan as it was before its nested space had floor -1
GroundPlan ==
    [CellarPlan EXCEPT
        !.interiors = <<[CellarPlan.interiors[1] EXCEPT
                            !.floorData = <<[f \in {0} |-> CellarPlan.interiors[1].floorData[1][0]]>>]>>]

ActiveDocuments ==
    {CellarPlan, GroundPlan, [CellarPlan EXCEPT !.fields = @ \ {"interiors"}]}

PlaceOutside ==
    /\ plan.steps < MaxActiveSteps
    /\ plan.activeInteriorId = 0
    /\ \E b \in PlanBuildables, x \in PlanXs :
        placeOnPlan(b, x, CHOOSE o \in PlanOrientations(b) : TRUE, 0) /\ UNCHANGED <<gridVars, app, space, tool, surface, walk, yard>>
PlaceInOpen ==
    /\ plan.steps < MaxActiveSteps
    /\ plan.activeFloor = 0
    /\ \E k \in getInteriorOf(plan) : placeInPlan(k) /\ UNCHANGED <<gridVars, app, space, tool, surface, walk, yard>>
AddCellarFloorOfOpen ==
    /\ plan.steps < MaxActiveSteps
    /\ plan.activeFloor = 0
    /\ \E k \in getInteriorOf(plan) : addCellarFloorOf(k) /\ UNCHANGED <<gridVars, app, space, tool, surface, walk, yard>>
OnOpenInterior ==
    /\ plan.steps < MaxActiveSteps
    /\ \E k \in 1..Len(plan.items) : onOpenInterior(k) /\ UNCHANGED <<gridVars, app, space, tool, surface, walk, yard>>
OnCloseInterior == plan.steps < MaxActiveSteps /\ onCloseInterior /\ UNCHANGED <<gridVars, app, space, tool, surface, walk, yard>>
EscapeKey == plan.steps < MaxActiveSteps /\ escapeKey /\ UNCHANGED <<gridVars, app, space, tool, surface, walk, yard>>
SetActiveFloor ==
    /\ plan.steps < MaxActiveSteps
    /\ \E floor \in {-1, 0} : setActiveFloor(floor) /\ UNCHANGED <<gridVars, app, space, tool, surface, walk, yard>>
DeleteKey ==
    /\ plan.steps < MaxActiveSteps
    /\ \E k \in 1..MaxPlanItems : deleteKey(k) /\ UNCHANGED <<gridVars, app, space, tool, surface, walk, yard>>
HandleClearPlan == plan.steps < MaxActiveSteps /\ handleClearPlan /\ UNCHANGED <<gridVars, app, space, tool, surface, walk, yard>>
HandleLoadOpen ==
    /\ plan.steps < MaxActiveSteps
    /\ \E data \in ActiveDocuments : handleLoadPlan(data) /\ UNCHANGED <<gridVars, app, space, tool, surface, walk, yard>>

NextActive ==
    \/ PlaceOutside
    \/ PlaceInOpen
    \/ AddCellarFloorOfOpen
    \/ OnOpenInterior
    \/ OnCloseInterior
    \/ EscapeKey
    \/ SetActiveFloor
    \/ DeleteKey
    \/ HandleClearPlan
    \/ HandleLoadOpen

SpecActive == Init /\ [][NextActive]_vars

\* the canvas on the outer grid: buildables are placed by a click, walls are
\* laid as completed lines
YardPoints == {Point(x, y) : x \in 0..(YardWidth - 1), y \in 0..(YardHeight - 1)}

PlaceOnYard ==
    /\ yard.steps < MaxYardSteps
    /\ \E b \in YardBuildables, pos \in YardPoints, rotation \in {0, 90} :
        placeOnYard(b, pos.x, pos.y, rotation) /\ UNCHANGED <<gridVars, historyVars, app, space, tool, surface, plan, walk>>
PlaceLineOnYard ==
    /\ yard.steps < MaxYardSteps
    /\ \E dir \in {"horizontal", "vertical"}, s \in YardPoints, p \in YardPoints :
        /\ IF dir = "horizontal" THEN s.y = p.y /\ s.x < p.x ELSE s.x = p.x /\ s.y < p.y
        /\ placeLineOnYard(dir, s, p)
        /\ UNCHANGED <<gridVars, historyVars, app, space, tool, surface, plan, walk>>

NextYard ==
    \/ PlaceOnYard
    \/ PlaceLineOnYard

SpecYard == Init /\ [][NextYard]_vars

\* getLineCells as a loop, fair to its turns: a call that has started goes on
GetLineCellsCall ==
    \E x0 \in ShapeCoords, y0 \in ShapeCoords, x1 \in ShapeCoords, y1 \in ShapeCoords :
        getLineCellsCall(x0, y0, x1, y1)
        /\ UNCHANGED <<gridVars, historyVars, app, space, tool, surface, plan, yard>>
GetLineCellsTurn ==
    getLineCellsTurn /\ UNCHANGED <<gridVars, historyVars, app, space, tool, surface, plan, yard>>

NextWalk ==
    \/ GetLineCellsCall
    \/ GetLineCellsTurn

SpecWalk == Init /\ [][NextWalk]_vars /\ WF_vars(GetLineCellsTurn)

(* ------------------------------ occupancy claims ----------------------- *)
\* a gate-like entity g and a wall w whose overlap the exemption rule allows:
\* the wall covers an end cell of the gate's long axis
ExemptOverlap(g, w) ==
    /\ g.requiresPalisadeOverlap
    /\ w.name = "Palisade"
    /\ coversGateEnd(w, g.x, g.y, g.width, g.height)

\* C1: no two entities of the grid overlap with positive area, except
\* overlaps the gate/wall exemption rule permits, in every state reachable
\* by the GridManager operations, loadItems included.
C1_NoOverlap ==
    \A i \in 1..Len(items), j \in 1..Len(items) :
        (i < j /\ overlaps(items[i], items[j]))
            => (ExemptOverlap(items[i], items[j]) \/ ExemptOverlap(items[j], items[i]))

\* C2: every entity lies inside the grid, 0 <= x, 0 <= y, x + width <=
\* gridWidth and y + height <= gridHeight, in every reachable state, also
\* after a setGridSize that shrinks the grid.
C2_InBounds ==
    \A i \in 1..Len(items) :
        /\ 0 <= items[i].x
        /\ 0 <= items[i].y
        /\ items[i].x + items[i].width <= gridWidth
        /\ items[i].y + items[i].height <= gridHeight


Rect(x, y, w, h) == [x |-> x, y |-> y, width |-> w, height |-> h]

\* the x-ranges and the y-ranges of a and b both intersect with positive width
PositiveArea(a, b) ==
    /\ Max(a.x, b.x) < Min(a.x + a.width, b.x + b.width)
    /\ Max(a.y, b.y) < Min(a.y + a.height, b.y + b.height)

InGrid(x, y, w, h) ==
    x >= 0 /\ y >= 0 /\ x + w <= gridWidth /\ y + h <= gridHeight

\* C3: for all integers x, y, w, h, every grid content, every excluded entity
\* and both values of requiresExemption, canPlaceItem is false whenever
\* x < 0 or y < 0 or x + w > gridWidth or y + h > gridHeight.
C3_OutOfBoundsRejected ==
    last.op = "new" =>
        \A x \in PlaceXs, y \in PlaceYs, w \in -1..MaxDim, h \in -1..MaxDim :
            (x < 0 \/ y < 0 \/ x + w > gridWidth \/ y + h > gridHeight)
                => \A ex \in ItemRefs(items), req \in BOOLEAN :
                       ~canPlaceItem(x, y, w, h, ex, req)

C3_Witness ==
    last.op = "canPlaceItem" /\ last.oob /\ ~last.ret /\ ~last.hit /\ Len(items) > 0

\* C4: without the exemption canPlaceItem(x, y, w, h, excluding) is true
\* exactly when the rectangle is in bounds and shares no positive area with
\* any entity other than the excluded one; rectangles that only share an edge
\* do not overlap: 2x2 entities at (0,0) and (2,0) coexist, a width-2 entity
\* at (1,0) is rejected next to the one at (0,0).
C4_NonExemptPlacement ==
    /\ last.op = "new" =>
           \A x \in PlaceXs, y \in PlaceYs, w \in Dims, h \in Dims, ex \in ItemRefs(items) :
               canPlaceItem(x, y, w, h, ex, FALSE)
                   <=> /\ InGrid(x, y, w, h)
                       /\ \A i \in 1..Len(items) :
                              i # ex => ~PositiveArea(Rect(x, y, w, h), items[i])
    /\ LET one == <<PlacedItem("House", 0, 0, 2, 2, FALSE)>>
       IN  /\ canPlaceItemIn(one, DefaultGrid, DefaultGrid, 2, 0, 2, 2, 0, FALSE)
           /\ ~canPlaceItemIn(one, DefaultGrid, DefaultGrid, 1, 0, 2, 2, 0, FALSE)

\* a non-exempt query accepted right beside an entity it touches along an edge
C4_Witness ==
    /\ last.op = "canPlaceItem" /\ last.ret /\ ~last.req
    /\ items = <<PlacedItem("House", 0, 0, 2, 2, FALSE)>>
    /\ canPlaceItem(2, 0, 2, 2, 0, FALSE)
    /\ ~canPlaceItem(1, 0, 2, 2, 0, FALSE)

\* C5: addItem and moveItem validate, then commit: a rejected call returns
\* false and leaves the entity list as it was; an accepted moveItem changes
\* only the moved entity's x and y, to a position canPlaceItem accepted, and
\* an accepted addItem appends exactly the one entity; a call is rejected
\* only for a candidate that is out of bounds, hits an entity or needs the
\* exemption.
C5_Step ==
    /\ last'.op \in {"addItem", "moveItem"} =>
           /\ gridWidth' = gridWidth /\ gridHeight' = gridHeight
           /\ ~last'.ret => (items' = items /\ (last'.oob \/ last'.hit \/ last'.req))
    /\ (last'.op = "addItem" /\ last'.ret) =>
           /\ Len(items') = Len(items) + 1
           /\ SubSeq(items', 1, Len(items)) = items
           /\ LET it == items'[Len(items')]
              IN  canPlaceItem(it.x, it.y, it.width, it.height, 0,
                               it.requiresPalisadeOverlap)
    /\ (last'.op = "moveItem" /\ last'.ret) =>
           LET i == last'.excludeItem
           IN  /\ i \in 1..Len(items)
               /\ items' = [items EXCEPT ![i] = [items[i] EXCEPT !.x = items'[i].x,
                                                                 !.y = items'[i].y]]
               /\ canPlaceItem(items'[i].x, items'[i].y, items[i].width, items[i].height,
                               i, items[i].requiresPalisadeOverlap)

C5_ValidateThenCommit == [][C5_Step]_vars

\* a moveItem onto another entity was rejected
C5_Witness ==
    last.op = "moveItem" /\ ~last.ret /\ last.hit /\ ~last.oob /\ Len(items) = MaxItems

\* C6: rotateItem swaps the entity's width and height and returns true when
\* the rotated rectangle is placeable, the entity itself excluded; otherwise
\* it returns false and width and height are as before; two consecutive
\* successful rotateItem calls restore the original width and height.
C6_Step ==
    last'.op = "rotateItem" =>
        LET i == last'.excludeItem
            ok == canPlaceItem(items[i].x, items[i].y, items[i].height, items[i].width, i,
                               items[i].requiresPalisadeOverlap)
        IN  /\ last'.ret = ok
            /\ items' = IF ok
                        THEN [items EXCEPT ![i] = [items[i] EXCEPT !.width = items[i].height,
                                                                   !.height = items[i].width]]
                        ELSE items

C6_Twice ==
    \A i \in 1..Len(items) :
        LET a == rotateItemOn(items, gridWidth, gridHeight, i)
            b == rotateItemOn(a.items, gridWidth, gridHeight, i)
        IN  (a.ret /\ b.ret) => b.items = items

C6_RotateItem == [][C6_Step]_vars /\ []C6_Twice

\* a rotation of a non-square entity was rejected
C6_Witness ==
    /\ last.op = "rotateItem" /\ ~last.ret
    /\ items[last.excludeItem].width # items[last.excludeItem].height

\* the two end cells of the candidate's longer axis
EndCells(x, y, w, h) ==
    IF h > w THEN {<<x, y>>, <<x, y + h - 1>>} ELSE {<<x, y>>, <<x + w - 1, y>>}

Overlappers(x, y, w, h) ==
    { i \in 1..Len(items) : PositiveArea(Rect(x, y, w, h), items[i]) }

WallAtEnd(i, x, y, w, h) ==
    /\ items[i].name = "Palisade"
    /\ \E c \in EndCells(x, y, w, h) : contains(items[i], c[1], c[2])

\* the candidate touches the gate's left or right edge in the gate's row (a
\* horizontal gate), its top or bottom edge in the gate's column (a vertical one)
EdgeAdjacent(x, y, w, h, g) ==
    IF g.width > g.height
    THEN y = g.y /\ (x + w = g.x \/ x = g.x + g.width)
    ELSE x = g.x /\ (y + h = g.y \/ y = g.y + g.height)

\* the code's test: the candidate's origin cell is the cell right before or
\* right after the gate
OriginAdjacent(x, y, w, h, g) ==
    IF g.width > g.height
    THEN y = g.y /\ (x = g.x - 1 \/ x = g.x + g.width)
    ELSE x = g.x /\ (y = g.y - 1 \/ y = g.y + g.height)

ExemptionRule(x, y, w, h, Adjacent(_, _, _, _, _)) ==
    \/ /\ Overlappers(x, y, w, h) # {}
       /\ \A i \in Overlappers(x, y, w, h) : WallAtEnd(i, x, y, w, h)
    \/ /\ Overlappers(x, y, w, h) = {}
       /\ \E i \in 1..Len(items) :
              NameIncludesGate(items[i].name) /\ Adjacent(x, y, w, h, items[i])

\* C7: an in-bounds candidate that requires the exemption is accepted exactly
\* when (a) some wall overlaps it and every entity overlapping it is a wall
\* covering one of the two end cells of its longer axis, or (b) nothing
\* overlaps it and it is edge-adjacent to a gate-like entity's matching edge.
C7_ExemptionRule ==
    last.op = "new" =>
        \A x \in PlaceXs, y \in PlaceYs, w \in Dims, h \in Dims :
            InGrid(x, y, w, h)
                => (canPlaceItem(x, y, w, h, 0, TRUE)
                        <=> ExemptionRule(x, y, w, h, EdgeAdjacent))

\* the exemption rule with (b) as the second loop tests it: the candidate's
\* origin cell lies right before or right after the gate; this is what
\* canPlaceItem computes
C7_OriginAdjacency ==
    last.op = "new" =>
        \A x \in PlaceXs, y \in PlaceYs, w \in Dims, h \in Dims :
            InGrid(x, y, w, h)
                => (canPlaceItem(x, y, w, h, 0, TRUE)
                        <=> ExemptionRule(x, y, w, h, OriginAdjacent))

(* ------------------------------ history claims ------------------------- *)
\* the cursor designates an entry of the log, or nothing in an empty log
CursorInLog ==
    /\ currentIndex \in -1..(Len(history) - 1)
    /\ currentIndex = -1 <=> history = <<>>

\* C8: the log never holds more than 50 snapshots; a save leaves the cursor
\* on the snapshot just saved, and a save into a full log with the cursor at
\* its end evicts the oldest snapshot; after 51 saves from an empty log the
\* first snapshot is gone and the deepest entry undo reaches is the second.
C8_Inv ==
    /\ Len(history) <= HistoryLimit
    /\ (hist.saves = HistoryLimit + 1 /\ hist.forks = 0) =>
           /\ history[1] = 2
           /\ \A k \in 1..Len(history) : history[k] # 1
           /\ currentIndex = 0 => ~canUndo

C8_Step ==
    /\ hist'.op = "saveState" =>
           /\ currentIndex' = Len(history') - 1
           /\ history'[Len(history')] = hist'.ret
           /\ (Len(history) = HistoryLimit /\ currentIndex = HistoryLimit - 1) =>
                  history' = Append(Tail(history), hist'.ret)
    /\ (hist'.op = "undo" /\ hist.saves = HistoryLimit + 1 /\ hist.forks = 0) =>
           hist'.ret # 1

C8_BoundedHistory == []C8_Inv /\ [][C8_Step]_vars

\* 51 saves, then undo down to the oldest entry, then one undo more
C8_Witness ==
    /\ hist.saves = HistoryLimit + 1 /\ hist.forks = 0
    /\ hist.op = "undo" /\ hist.ret = 0
    /\ currentIndex = 0 /\ history[1] = 2 /\ Len(history) = HistoryLimit

\* C9: a save made with the cursor before the end of the log keeps the
\* snapshots up to the cursor, discards the rest, appends the new snapshot as
\* the last entry and puts the cursor on it; redo is then unavailable, and a
\* redo right after a save returns nothing and changes nothing.
C9_Step ==
    /\ (hist'.op = "saveState" /\ canRedo) =>
           /\ history' = Append(SubSeq(history, 1, currentIndex + 1), hist'.ret)
           /\ currentIndex' = Len(history') - 1
           /\ ~canRedo'
    /\ (hist.op = "saveState" /\ hist'.op = "redo") =>
           /\ hist'.ret = 0
           /\ history' = history /\ currentIndex' = currentIndex

C9_BranchDiscard == [][C9_Step]_vars

\* the save just made discarded at least two snapshots: the serial numbers of
\* the last two entries are three or more apart
C9_Witness ==
    /\ hist.op = "saveState" /\ hist.forks = 1
    /\ Len(history) >= 2
    /\ history[Len(history)] - history[Len(history) - 1] >= 3
    /\ ~canRedo

\* C10: undo moves the cursor back by one and returns the snapshot then under
\* it when an earlier snapshot exists, else returns nothing and leaves log
\* and cursor alone; redo likewise forward; canUndo holds exactly when undo
\* returns a snapshot, canRedo exactly when redo does; the cursor always
\* designates an entry of the log, so the indexing never fails.
C10_Step ==
    /\ hist'.op = "undo" =>
           /\ history' = history
           /\ IF currentIndex >= 1
              THEN /\ currentIndex' = currentIndex - 1
                   /\ hist'.ret = history'[currentIndex' + 1]
                   /\ hist'.ret # 0
              ELSE currentIndex' = currentIndex /\ hist'.ret = 0
           /\ canUndo <=> hist'.ret # 0
    /\ hist'.op = "redo" =>
           /\ history' = history
           /\ IF currentIndex + 1 <= Len(history) - 1
              THEN /\ currentIndex' = currentIndex + 1
                   /\ hist'.ret = history'[currentIndex' + 1]
                   /\ hist'.ret # 0
              ELSE currentIndex' = currentIndex /\ hist'.ret = 0
           /\ canRedo <=> hist'.ret # 0

C10_UndoRedo == []CursorInLog /\ [][C10_Step]_vars

\* an undo on the first snapshot, with later snapshots to redo, returned nothing
C10_Witness ==
    hist.op = "undo" /\ hist.ret = 0 /\ currentIndex = 0 /\ canRedo /\ ~canUndo

(* ------------------------------ application claims --------------------- *)
\* the snapshot under the cursor (the cursor is inside the log)
cursorInLog(h, c) == c + 1 \in 1..Len(h)

Edits ==
    {"place", "move", "paint", "delete", "handleDelete", "handleRotate", "handleClear",
     "handleClearAllPaving"}

\* C11: when an undo has returned a snapshot, a redo that follows it at once
\* returns the snapshot that was under the cursor before the undo, puts the
\* cursor back where it was, and leaves the outer grid and the surface as they
\* were before the undo (entities compared by name, position and size).
C11_Step ==
    (hist.op = "undo" /\ hist.ret # 0 /\ hist'.op = "redo") =>
        /\ hist'.ret # 0
        /\ currentIndex' = currentIndex + 1
        /\ currentIndex + 2 <= Len(history)
        /\ app'.heap[hist'.ret] = app.heap[history[currentIndex + 2]]
        /\ snapshotOf(items', app'.paving) = snapshotOf(app.was.items, app.was.paving)

C11_UndoRedoRoundTrip == [][C11_Step]_vars

\* C12: every snapshot in the history log holds what it held when it was
\* saved, whatever has been done to the live grid since.
C12_SnapshotsFrozen ==
    \A k \in 1..Len(history) : app.heap[history[k]] = app.orig[history[k]]

\* C13: when a handler has changed the outer grid or the surface, the
\* snapshot under the cursor equals the live state it leaves (entities compared
\* by name, position and size), and an undo that follows at once restores the
\* state that held before the change.
C13_Step ==
    /\ (hist'.op \in Edits /\ <<items', app'.paving>> # <<items, app.paving>>) =>
            /\ cursorInLog(history', currentIndex')
            /\ app'.heap[history'[currentIndex' + 1]] = snapshotOf(items', app'.paving)
    /\ (hist.op \in Edits /\ liveState # app.was /\ hist'.op = "undo") =>
            snapshotOf(items', app'.paving) = snapshotOf(app.was.items, app.was.paving)

C13_SaveAfterMutation == [][C13_Step]_vars

\* C14: when a load has completed, the log holds exactly one snapshot, equal
\* to the loaded entities and surface in every field, the cursor is on it,
\* canUndo and canRedo are false; and the log never holds a snapshot saved
\* before the last load.
C14_Step ==
    hist'.op = "handleLoad" =>
        /\ Len(history') = 1
        /\ currentIndex' = 0
        /\ app'.heap[history'[1]] = [items |-> items', paving |-> app'.paving]
        /\ ~(currentIndex' > 0)
        /\ ~(currentIndex' < Len(history') - 1)

Waiting(op) == \E k \in 1..Len(app.pending) : app.pending[k].op = op

C15_Step ==
    /\ (Waiting("undo") \/ Waiting("redo")) => Len(app'.pending) < Len(app.pending)
    /\ (app.pending # <<>> /\ app'.pending = <<>>) =>
            /\ cursorInLog(history', currentIndex')
            /\ app'.heap[history'[currentIndex' + 1]] = snapshotOf(items', app'.paving)

C15_AtomicRestore == [][C15_Step]_vars

(* ------------------------------ nested space claims -------------------- *)
\* C16: the nested space has a floor -1 exactly when an entity that unlocks a
\* cellar is on its floor 0, in every state reached by placing, removing and
\* loading.
C16_CellarIffUnlocked == hasCellarFloor(space) <=> cellarItems(space.floor0) # {}

\* the entities of floor 0 a step has removed
Removed == {k \in 1..Len(space.floor0) : space.floor0[k] \notin Range(space'.floor0)}

\* C17: a deletion (single or multiple) from floor 0 of a nested space with a
\* cellar that takes away an unlocking entity leaves floor -1 exactly when an
\* unlocking entity remains on floor 0 after all its removals; and when the
\* deletion removes floor -1 while the active floor is -1, the active floor is
\* 0 afterwards.
C17_Step ==
    /\ (/\ space'.op \in {"delete", "deleteItems"}
        /\ hasCellarFloor(space)
        /\ Removed \cap cellarItems(space.floor0) # {}) =>
            (hasCellarFloor(space') <=> cellarItems(space'.floor0) # {})
    /\ (/\ space'.op \in {"delete", "deleteItems"}
        /\ hasCellarFloor(space)
        /\ ~hasCellarFloor(space')
        /\ space.activeFloor = -1) =>
            space'.activeFloor = 0

C18_Step ==
    hist'.op \in {"delete", "handleDelete", "handleClear"} =>
        \A k \in 1..Len(items) :
            (items[k] \notin Range(items') /\ items[k].interiorId # 0) =>
                \A j \in 1..Len(app'.interiors) : app'.interiors[j].id # items[k].interiorId

Delta(dir, s, p) == IF dir = "horizontal" THEN Abs(p.x - s.x) ELSE Abs(p.y - s.y)

\* the inclusive span from the start to the point projected on the axis
Span(dir, s, p) ==
    IF dir = "horizontal"
    THEN {Point(x, s.y) : x \in Min(s.x, p.x)..Max(s.x, p.x)}
    ELSE {Point(s.x, y) : y \in Min(s.y, p.y)..Max(s.y, p.y)}

\* C19: an update in a session with no direction locked returns the one start
\* cell and locks nothing when the point is the start; otherwise it locks
\* horizontal when |dx| >= |dy| (a tie included) and vertical when |dx| < |dy|,
\* dx and dy measured from the start.
C19_Step ==
    (tool'.op = "updateEndPoint" /\ tool.startPoint # <<>> /\ tool.currentDirection = "none") =>
        LET s == tool.startPoint[1]
            p == tool'.arg[1]
        IN  IF p = s
            THEN tool'.ret = <<s>> /\ tool'.currentDirection = "none"
            ELSE /\ Abs(p.x - s.x) >= Abs(p.y - s.y) => tool'.currentDirection = "horizontal"
                 /\ Abs(p.x - s.x) < Abs(p.y - s.y) => tool'.currentDirection = "vertical"

C19_DirectionLock == [][C19_Step]_vars

\* a first update on a diagonal away from the start has locked horizontal
C19_Witness ==
    /\ tool.op = "updateEndPoint"
    /\ tool.before = "none"
    /\ tool.startPoint # <<>>
    /\ tool.arg[1] # tool.startPoint[1]
    /\ Abs(tool.arg[1].x - tool.startPoint[1].x) = Abs(tool.arg[1].y - tool.startPoint[1].y)
    /\ tool.currentDirection = "horizontal"

\* C20: an update in a session with a direction locked keeps the direction and
\* the start, and returns exactly the cells of the inclusive span from the start
\* to the point on the locked axis, |delta| + 1 of them, the other coordinate
\* the start's; so an update nearer the start than the one before returns a
\* shorter run.
C20_Step ==
    (tool'.op = "updateEndPoint" /\ tool.startPoint # <<>> /\ tool.currentDirection # "none") =>
        LET s == tool.startPoint[1]
            p == tool'.arg[1]
            dir == tool.currentDirection
        IN  /\ tool'.currentDirection = dir
            /\ tool'.startPoint = tool.startPoint
            /\ Len(tool'.ret) = Delta(dir, s, p) + 1
            /\ Range(tool'.ret) = Span(dir, s, p)
            /\ tool'.currentSegment = tool'.ret
            /\ (tool.op = "updateEndPoint" /\ Delta(dir, s, p) < Delta(dir, s, tool.arg[1])) =>
                    Len(tool'.ret) < Len(tool.ret)

C20_LockedSpan == [][C20_Step]_vars

\* an update off the locked axis, nearer the start than the run is long, has
\* kept the horizontal direction
C20_Witness ==
    /\ tool.op = "updateEndPoint"
    /\ tool.before = "horizontal"
    /\ tool.currentDirection = "horizontal"
    /\ tool.arg[1].y # tool.startPoint[1].y
    /\ Abs(tool.arg[1].y - tool.startPoint[1].y) > Abs(tool.arg[1].x - tool.startPoint[1].x)
    /\ Len(tool.ret) = 2

Idle(t) == t.startPoint = <<>>

\* C21: completeLine called while drawing returns the cells of the current run
\* (the one start cell when no update moved away from the start) and leaves
\* the tool idle; cancel returns nothing and leaves the tool idle with the run
\* and the stored segments discarded.
C21_Step ==
    /\ (tool'.op = "completeLine" /\ ~Idle(tool)) =>
            /\ concat(tool'.done) = tool.currentSegment
            /\ Idle(tool')
    /\ tool'.op = "cancel" =>
            /\ tool'.done = <<>>
            /\ Idle(tool')
            /\ tool'.currentSegment = <<>>
            /\ tool'.placedSegments = <<>>

C21_CompleteAndCancel == [][C21_Step]_vars

\* C22: the tool is drawing exactly from a startLine until the next
\* completeLine, cancel or reset; startLine(p) from any state gives a drawing
\* tool with start p, no direction and a session whose cells are the one cell
\* p; an idle tool has no start, no direction, no run and no stored segment,
\* and updateEndPoint on an idle tool returns the empty list and changes
\* nothing.
C22_IdleIsEmpty ==
    Idle(tool) =>
        /\ tool.currentDirection = "none"
        /\ tool.currentSegment = <<>>
        /\ tool.placedSegments = <<>>

C22_Step ==
    /\ ~Idle(tool') <=>
            \/ tool'.op = "startLine"
            \/ ~Idle(tool) /\ tool'.op \notin {"completeLine", "cancel", "reset"}
    /\ tool'.op = "startLine" =>
            /\ tool'.startPoint = tool'.arg
            /\ tool'.currentDirection = "none"
            /\ getAllCellsOf(tool') = tool'.arg
    /\ (tool'.op = "updateEndPoint" /\ Idle(tool)) =>
            /\ tool'.ret = <<>>
            /\ tool'.startPoint = tool.startPoint
            /\ tool'.currentDirection = tool.currentDirection
            /\ tool'.currentSegment = tool.currentSegment
            /\ tool'.placedSegments = tool.placedSegments

C22_TwoStates == [](C22_IdleIsEmpty) /\ [][C22_Step]_vars

\* C23: the tagged run of a drawing tool starts with the start cell, tagged
\* corner, wherever the last update point lies from the start; every other
\* cell carries the locked orientation, but for a last cell made a corner by
\* a structure of another orientation standing on it; a run of one cell is
\* one corner.
C23_Step ==
    (tool'.op = "getAllCellsWithCorners" /\ ~Idle(tool)) =>
        LET s == tool.startPoint[1]
            run == tool'.ret
        IN  /\ run # <<>>
            /\ run[1] = Oriented(s, "corner")
            /\ \A k \in 2..Len(run) :
                    \/ run[k].orientation = tool.currentDirection
                    \/ /\ k = Len(run)
                       /\ run[k].orientation = "corner"
                       /\ tool'.arg[1] \notin {"none", tool.currentDirection}
            /\ Len(run) = 1 => run[1].orientation = "corner"

C23_FirstCellCorner == [][C23_Step]_vars

\* C24: getLineCells returns a list that starts at (x0,y0), ends at (x1,y1),
\* has max(|x1-x0|, |y1-y0|) + 1 cells, repeats no cell, and whose consecutive
\* cells differ by at most 1 in each coordinate.
C24_LineCells ==
    surface.op = "getLineCells" =>
        LET a == surface.arg
            r == surface.ret
        IN  /\ r[1] = GridCell(a[1], a[2])
            /\ r[Len(r)] = GridCell(a[3], a[4])
            /\ Len(r) = Max(Abs(a[3] - a[1]), Abs(a[4] - a[2])) + 1
            /\ Cardinality(Range(r)) = Len(r)
            /\ \A k \in 1..(Len(r) - 1) :
                    Abs(r[k + 1].x - r[k].x) <= 1 /\ Abs(r[k + 1].y - r[k].y) <= 1

\* the line from (0,0) to (3,0) has 4 cells
C24_Witness ==
    /\ surface.op = "getLineCells"
    /\ surface.arg = <<0, 0, 3, 0>>
    /\ Len(surface.ret) = 4

\* C25: getRectangleCells returns each cell of the box spanned by the two
\* corners once and no other cell, (|x1-x0|+1)*(|y1-y0|+1) cells in all; the
\* corners swapped, and the corners of the other diagonal, give the same set.
C25_RectangleCells ==
    surface.op = "getRectangleCells" =>
        LET a == surface.arg
            r == surface.ret
        IN  /\ Range(r) = {GridCell(x, y) : x \in Min(a[1], a[3])..Max(a[1], a[3]),
                                            y \in Min(a[2], a[4])..Max(a[2], a[4])}
            /\ Len(r) = (Abs(a[3] - a[1]) + 1) * (Abs(a[4] - a[2]) + 1)
            /\ Cardinality(Range(r)) = Len(r)
            /\ Range(getRectangleCellsOf(a[3], a[4], a[1], a[2])) = Range(r)
            /\ Range(getRectangleCellsOf(a[1], a[4], a[3], a[2])) = Range(r)
            /\ Range(getRectangleCellsOf(a[3], a[2], a[1], a[4])) = Range(r)

\* the rectangle was asked for with its corners in reverse order and has 9
\* cells
C25_Witness ==
    /\ surface.op = "getRectangleCells"
    /\ surface.arg = <<2, 2, 0, 0>>
    /\ Len(surface.ret) = 9

\* C26: getCircleCells returns each integer cell whose squared distance to the
\* center is at most the squared distance from the center to the edge point
\* once and no other cell; the center and the edge point are among them; an
\* edge point on the center gives the one cell of the center; center (5,5)
\* with edge (5,7) gives 13 cells.
C26_CircleCells ==
    surface.op = "getCircleCells" =>
        LET a == surface.arg
            r == surface.ret
            d == distSquaredOf(a[3], a[4], a[1], a[2])
            reach == ceilSqrt(d)
        IN  /\ Range(r) = {c \in Range(r) \cup
                                  {GridCell(x, y) : x \in (a[1] - reach)..(a[1] + reach),
                                                    y \in (a[2] - reach)..(a[2] + reach)} :
                              distSquaredOf(c.x, c.y, a[1], a[2]) <= d}
            /\ Cardinality(Range(r)) = Len(r)
            /\ GridCell(a[1], a[2]) \in Range(r)
            /\ GridCell(a[3], a[4]) \in Range(r)
            /\ d = 0 => r = <<GridCell(a[1], a[2])>>
            /\ a = <<5, 5, 5, 7>> => Len(r) = 13

\* C27: loading what toJSON returned into a layer, whatever the layer held,
\* gives a layer with the coordinates of the serialised one and at each the
\* same name, category and image, and whose own toJSON is the value loaded.
C27_Step ==
    surface'.op = "loadPaving" =>
        /\ DOMAIN surface'.grid = DOMAIN surface.json
        /\ \A k \in DOMAIN surface.json :
                /\ surface'.grid[k].name = surface.json[k].name
                /\ surface'.grid[k].category = surface.json[k].category
                /\ surface'.grid[k].image = surface.json[k].image
        /\ toJSONOf(surface'.grid) = surface.json

C27_PavingRoundTrip == [][C27_Step]_vars

\* a load into a layer that held a cell the document lacks and lacked a cell
\* the document has
C27_Witness ==
    /\ surface.op = "loadPaving"
    /\ DOMAIN surface.was \ DOMAIN surface.json # {}
    /\ DOMAIN surface.json \ DOMAIN surface.was # {}
    /\ DOMAIN surface.grid = DOMAIN surface.json

(* ------------------------------ persistence claims --------------------- *)
\* what is observable of a session: the sizes, the entities with their
\* links, the surface without its image handles, every floor of every
\* nested space
floorView(floor) == [items |-> floor.items, paving |-> toJSONOf(floor.paving)]

sessionView(s) ==
    [gridWidth |-> s.gridWidth, gridHeight |-> s.gridHeight, items |-> s.items,
     paving |-> toJSONOf(s.paving),
     interiors |-> [i \in 1..Len(s.interiors) |->
                      [id |-> s.interiors[i].id, buildingId |-> s.interiors[i].buildingId,
                       floors |-> [f \in floorNumbers(s.interiors[i]) |->
                                     floorView(floorOf(s.interiors[i], f))]]]]

Loads == {"load", "reload", "reloadLegacy"}

\* C28: a populated session that is saved and whose file is opened in a
\* session that has just started shows the same state again: the grid width
\* and height, the entities with kind, position, size, orientation, rotation
\* and link to their nested space, the surface, and every floor of every
\* nested space (floor -1 included); the file rewritten with the legacy single
\* size gives the same state with width = height = that size.
C28_SaveLoadRoundTrip ==
    /\ (plan.op = "reload" /\ plan.saved[1].items # <<>>)
            => sessionView(sessionOf(plan)) = sessionView(plan.saved[1])
    /\ (plan.op = "reloadLegacy" /\ plan.saved[1].items # <<>>)
            => sessionView(sessionOf(plan))
                   = sessionView([plan.saved[1] EXCEPT !.gridWidth = plan.arg.gridSize,
                                                       !.gridHeight = plan.arg.gridSize])

\* C29: after a load of a document that has gridSize and lacks gridWidth or
\* gridHeight, the grid width and height are both gridSize; after a load of a
\* document that has gridWidth and gridHeight, they are exactly those two
\* values, with or without gridSize in the document.
C29_GridSizeOnLoad ==
    (plan.op \in Loads /\ plan.arg.parses) =>
        LET data == plan.arg
        IN  /\ ("gridSize" \in data.fields
                   /\ ("gridWidth" \notin data.fields \/ "gridHeight" \notin data.fields))
                  => (plan.gridWidth = data.gridSize /\ plan.gridHeight = data.gridSize)
            /\ ({"gridWidth", "gridHeight"} \subseteq data.fields)
                  => (plan.gridWidth = data.gridWidth /\ plan.gridHeight = data.gridHeight)

\* C30: a load of a document that does not parse, or that parses and has
\* items, paving or interiors missing or of the wrong shape, leaves the grid
\* size, the entities of the outer grid, the surface, the nested spaces and
\* the history log exactly as they were before the load started.
Malformed(data) ==
    \/ ~data.parses
    \/ \E field \in {"items", "paving", "interiors"} :
           field \notin data.fields \/ field \in data.bad

C30_Step ==
    (plan'.op = "load" /\ plan'.steps # plan.steps /\ Malformed(plan'.arg))
        => /\ sessionOf(plan') = sessionOf(plan)
           /\ history' = history
           /\ currentIndex' = currentIndex

C30_LoadAllOrNothing == [][C30_Step]_vars

(* ------------------------------ loop claims ---------------------------- *)
\* the locals of the loop lie between the start and the end point
Between(a, v, b) == (a <= v /\ v <= b) \/ (b <= v /\ v <= a)

\* C35: a call of getLineCells with integer end points ends: the loop reaches
\* (x1,y1) after finitely many turns, and at no turn is x or y beyond the end
\* point on its axis.
C35_Within ==
    walk.pc # "idle" =>
        /\ Between(walk.x0, walk.x, walk.l.x1)
        /\ Between(walk.y0, walk.y, walk.l.y1)

C35_LineCellsTerminates ==
    /\ [](C35_Within)
    /\ (walk.pc = "loop") ~> (walk.pc = "done" /\ walk.x = walk.l.x1 /\ walk.y = walk.l.y1)

\* the call from (3,1) to (0,0) has returned, with the locals at (0,0)
C35_Witness ==
    /\ walk.pc = "done"
    /\ <<walk.x0, walk.y0, walk.l.x1, walk.l.y1>> = <<3, 1, 0, 0>>
    /\ <<walk.x, walk.y>> = <<0, 0>>

(* ------------------------------ exclusion claims ----------------------- *)
\* the list its with the entity at index e taken out
ItemsWithout(its, e) == [k \in 1..(Len(its) - 1) |-> IF k < e THEN its[k] ELSE its[k + 1]]

\* C36: the entity excluded from a canPlaceItem call plays no part in any of
\* its checks: for every grid, entity e of it, rectangle and exemption flag,
\* canPlaceItem excluding e answers what canPlaceItem excluding nothing
\* answers on the grid with e removed; a gate being moved is not accepted for
\* lying next to the end of its own current position.
C36_ExcludedPlaysNoPart ==
    last.op = "new" =>
        \A e \in 1..Len(items), x \in PlaceXs, y \in PlaceYs :
            \A c \in Catalog \cup {rotate(k) : k \in Catalog} :
                canPlaceItem(x, y, c.width, c.height, e, c.requiresPalisadeOverlap)
                    = canPlaceItemIn(ItemsWithout(items, e), gridWidth, gridHeight,
                                     x, y, c.width, c.height, 0, c.requiresPalisadeOverlap)

\* C37: in every state of the history log the cursor is at least -1 and at
\* most the length of the log less one, and it is -1 exactly when the log is
\* empty; also after an input event whose handler saves more than once (the
\* release of the mouse after a placed entity was dragged to a new cell).
C37_CursorWithinLog ==
    /\ -1 <= currentIndex
    /\ currentIndex <= Len(history) - 1
    /\ (currentIndex = -1) <=> (history = <<>>)

(* ------------------------------ snapshot claims ------------------------ *)
\* the handlers of the persistence model that end with a save
PlanSaves == {"place", "placeIn", "pave"}

\* C34: the snapshot a save has pushed equals the entity list it was given in
\* every field (kind, position, size, orientation, rotation, link to the
\* nested space); and the entities an undo has restored are, in every field,
\* the entities that were saved in the snapshot it went back to, so a wall
\* segment has its orientation and a building its link.
C34_SnapshotKeepsFields ==
    /\ plan.op \in PlanSaves => plan.shots[history[currentIndex + 1]].items = plan.items
    /\ plan.op = "undo" => plan.items = plan.orig[plan.live]

(* ------------------------------ cellar claims -------------------------- *)
\* the cellar addCellarFloor makes: no entity, the cellar default surface in
\* every cell of the space
NewCellar(floor) ==
    /\ floor.items = <<>>
    /\ DOMAIN floor.paving = {<<x, y>> : x \in 0..(PlanInsideWidth - 1),
                                         y \in 0..(PlanInsideHeight - 1)}
    /\ \A k \in DOMAIN floor.paving : floor.paving[k].name = "Arkose"

\* C39: addCellarFloor called on a space that has floor -1 changes nothing,
\* so what is on floor -1 stays; called on a space without floor -1 it makes
\* the floor with no entity and the cellar default surface in every cell of
\* the space's width and height, and leaves the other floors as they were.
C39_Step ==
    (plan'.op = "addCellarFloor" /\ plan'.steps # plan.steps) =>
        /\ Len(plan'.interiors) = Len(plan.interiors)
        /\ \E k \in 1..Len(plan.interiors) :
              /\ \A j \in 1..Len(plan.interiors) : j # k => plan'.interiors[j] = plan.interiors[j]
              /\ IF plan.interiors[k].cellar # <<>>
                 THEN plan'.interiors[k] = plan.interiors[k]
                 ELSE /\ plan'.interiors[k].cellar # <<>>
                      /\ NewCellar(plan'.interiors[k].cellar[1])
                      /\ plan'.interiors[k] = [plan.interiors[k] EXCEPT !.cellar = plan'.interiors[k].cellar]

C39_CellarOnce == [][C39_Step]_vars

\* the call was made on the one space of the session, whose floor -1 holds an
\* entity
C39_Witness ==
    /\ plan.op = "addCellarFloor"
    /\ Len(plan.interiors) = 1
    /\ plan.interiors[1].cellar # <<>>
    /\ plan.interiors[1].cellar[1].items # <<>>

(* ------------------------------ registry claims ------------------------ *)
\* the links carried by the entities of the outer grid
linksOnGrid == {items[k].interiorId : k \in 1..Len(items)} \ {0}

declaresInterior(item) == \E b \in PlanBuildables : b.name = item.name /\ b.hasInterior

\* the spaces the registry holds when the pass over the entities begins: those
\* of the document, or those of the session when the document has none
registeredBefore ==
    IF "interiors" \in plan.arg.fields
    THEN {plan.arg.interiors[i].id : i \in 1..Len(plan.arg.interiors)}
    ELSE {plan.was.interiors[i].id : i \in 1..Len(plan.was.interiors)}

\* C31: after a document has been loaded every entity of the outer grid whose
\* kind declares a nested space has a link that names a space of the
\* registry; and a space the load has created for an entity that came without
\* a link has the owner id kind_x_y of that entity.
C31_LoadReconciles ==
    (plan.op \in Loads /\ loadEnds(plan.arg) = "done") =>
        /\ \A k \in 1..Len(plan.items) :
              declaresInterior(plan.items[k]) =>
                  /\ plan.items[k].interiorId # 0
                  /\ \E j \in 1..Len(plan.interiors) :
                        plan.interiors[j].id = plan.items[k].interiorId
        /\ \A j \in 1..Len(plan.interiors) :
              plan.interiors[j].id \notin registeredBefore =>
                  \E k \in 1..Len(plan.items) :
                      /\ plan.items[k].interiorId = plan.interiors[j].id
                      /\ plan.interiors[j].buildingId = buildingIdOf(plan.items[k])

placedNow == {i \in 1..Len(yard.items) : yard.items[i].id = yard.arg.id}

\* the span of the last placement
spanNow == [x |-> yard.arg.x, y |-> yard.arg.y, width |-> yard.arg.width,
            height |-> yard.arg.height]

\* C32: placing an entity that needs wall segments under it is all or
\* nothing: when the entity is not added the grid is as it was before the
\* attempt, no wall segment removed; when it is added, the grid is the former
\* one without wall segments that lay under its span, followed by the entity.
C32_GateAllOrNothing ==
    (yard.op = "place" /\ yard.arg.requiresPalisadeOverlap) =>
        IF placedNow = {}
        THEN yard.items = yard.was
        ELSE \E gone \in SUBSET {yard.was[k].id : k \in 1..Len(yard.was)} :
                /\ \A k \in 1..Len(yard.was) :
                      yard.was[k].id \in gone =>
                          yard.was[k].usesLineTool /\ overlaps(yard.was[k], spanNow)
                /\ SubSeq(yard.items, 1, Len(yard.items) - 1) = withoutIds(yard.was, gone)
                /\ placedNow = {Len(yard.items)}

\* C33: after a completed line has been placed, every cell of the run that
\* lay on a linear entity whose orientation differed from the cell's tag is
\* occupied by that same object, now a corner, and by no other entity; for
\* the cells in the middle of the run as for its ends.
C33_CornerInPlace ==
    yard.op = "line" =>
        \A c \in 1..Len(yard.arg.cells), k \in 1..Len(yard.was) :
            LET cell == yard.arg.cells[c]
                e == yard.was[k]
            IN  (e.usesLineTool /\ contains(e, cell.x, cell.y)
                        /\ e.orientation # cell.orientation) =>
                    /\ \E i \in 1..Len(yard.items) : yard.items[i].id = e.id
                    /\ \A i \in 1..Len(yard.items) :
                          contains(yard.items[i], cell.x, cell.y) =>
                              yard.items[i] = [e EXCEPT !.orientation = "corner"]

====
